---- MODULE Spec2Model ----
(***************************************************************************)
(* Session lifecycle orchestrator of sniaff-android-mcp: SessionManager    *)
(* (proxy variant and elevation variant), the emulator and proxy adapters, *)
(* the workspace store and the port finder, with the spawned processes and *)
(* the operating system's port namespace as environment.                   *)
(*                                                                         *)
(* Every await of the source is a step boundary: one action runs from the  *)
(* resumption of an await to the next await (or to return/throw).          *)
(***************************************************************************)
EXTENDS Integers, Sequences, FiniteSets, TLC

----------------------------------------------------------------------------
(* Bounds of the model *)

\* number of startSession calls that may be in flight together (specification
\* SpecRace); each call generates a fresh session id
MaxSessions == 2
\* number of stopSession calls issued (specification Spec)
MaxStops == 1
\* number of environment faults injected in one behaviour (a failing kill, a
\* failing file operation, a failing external command, a process exiting by
\* itself, a timeout although the device was ready)
MaxFaults == 2
\* width of the port window of the port-finder inputs (ports PFBase..PFBase+PFSpan)
PFSpan == 4
\* longest boot timeout of the standalone waits, in clock ticks (one tick is one
\* polling interval)
WaitTimeoutMax == 2
\* number of ensureSniaffAvd calls made one after the other (specification SpecSetup)
MaxEnsures == 2
\* number of termination events delivered to the process (specification SpecShutdown)
MaxEvents == 2

----------------------------------------------------------------------------
(* Program constants *)

DefaultEmulatorPort == 5554
EmulatorPortEnd == 5682
DefaultMitmPort == 8080
MitmScanSpan == 100
PortRetryAttempts == 5
\* config.maxSessions, here with SNIAFF_MAX_SESSIONS=1 (the default is 10)
ConfiguredMaxSessions == 1

\* the value standing for "no port": findAvailable/findAvailableEven threw
NoPort == 0
\* a pid field holding null
NoPid == 0

SessionIds == 1..MaxSessions
\* the stopSession calls of the model: MaxStops calls that run beside
\* startSession, and one more that overlaps them in SpecOverlap
StopCalls == 1..(MaxStops + 1)
\* the calls issued in Spec and SpecSeq
SoloStops == 1..MaxStops
\* an id no startSession ever generated
UnknownId == 0

----------------------------------------------------------------------------
(* Port finder (pure part) *)

\* isAvailable(port): a listener can bind the port right now
IsAvailable(port, occ) == port \notin occ

\* mutant of ScanContinues: the loop stops one port early
ScanContinues_OffByOne(port, end) == port < end
\* loop condition of findAvailable / findAvailableEven
ScanContinues(port, end) == port <= end

RECURSIVE ScanFrom(_, _, _, _)
\* the scanning loop: first port, stepping by `step`, that probes available
ScanFrom(port, end, step, occ) ==
    IF ~ScanContinues(port, end) THEN NoPort
    ELSE IF IsAvailable(port, occ) THEN port
    ELSE ScanFrom(port + step, end, step, occ)

FindAvailable(start, end, occ) == ScanFrom(start, end, 1, occ)

\* mutant of EvenStart: an odd start is not rounded up
EvenStart_NoRound(start) == start
\* first candidate of findAvailableEven
EvenStart(start) == IF start % 2 = 0 THEN start ELSE start + 1

FindAvailableEven(start, end, occ) == ScanFrom(EvenStart(start), end, 2, occ)

----------------------------------------------------------------------------
(* State *)

VARIABLES
    variant,       \* "proxy" (MITM proxy + emulator) or "elevation" (rooted AVD + emulator)
    extOccupied,   \* ports held by listeners that are not children of this program
    faults,        \* environment faults injected so far
    avdExists,     \* the managed virtual device is listed by `emulator -list-avds`
    pc,            \* position of each startSession call (the await it is suspended at)
    pass,          \* elevation variant: 1 = first boot, 2 = boot after forced recreation
    input,         \* StartInput of each startSession call
    sess,          \* the Session object of each call (state "IDLE" = still null)
    registry,      \* keys of SessionManager.sessions
    sel,           \* adapter start: the port selected for the process being spawned
    pend,          \* adapter start: pid returned by supervisor.spawn, awaiting the liveness check
    trigger,       \* the error caught by startSession's catch block
    cleanupErr,    \* the last error swallowed inside rollback
    startErr,      \* the error startSession threw to its caller
    result,        \* the SessionStartResult returned to the caller
    events,        \* the states carried by the stateChange events emitted for each call, in order
    stateLog,      \* the values stored in the state field of each call's Session, in order
    ws,            \* the workspace directory of a session exists on disk
    meta,          \* content of the workspace's meta.json
    cleanupCalls,  \* session ids WorkspaceManager.cleanup was invoked for
    proxyCleared,  \* adb ports clearProxy was invoked for
    procs,         \* spawned child processes, indexed by pid
    killInvoked,   \* pids supervisor.kill was invoked on
    killReturned,  \* pids whose adapter stop call has returned without error
    emuSel,        \* emulator port selection of each call: request, probe results, outcome
    rootChecks,    \* results of checkRootStatus of each call, in order
    recreations,   \* number of forceRecreateAvd invocations of each call
    proxyOutcome,  \* how setProxy ended in each call: "none", "ok" or "failed"
    stopPc,        \* position of each stopSession call
    stopArg,       \* its sessionId argument
    stopTarget,    \* pid passed to the adapter stop call it is awaiting
    stopErr,       \* the error it threw
    stopHist,      \* what happened during it (for the properties)
    pf,            \* port finder called on its own: inputs and result
    wb,            \* waitForBoot / waitForEmulatorBoot called on its own: clock, device, position
    setup,         \* ensureSniaffAvd called on its own: SDK state, effects, position
    um,            \* updateMeta called on its own: record on disk, inputs, outcome
    ms,            \* MitmAdapter.start called on its own: request, occupied ports, outcome
    sd,            \* main's shutdown handlers: termination events, teardown runs, exit
    sc             \* StateClient.updateAndroid called on its own: state file, inputs, outcome

staticVars == <<variant, extOccupied>>
moreUnits  == <<ms, sd, sc>>
unitVars   == <<wb, setup, um, moreUnits>>
evVars     == <<events, stateLog>>
callVars   == <<pc, pass, input, sess, registry, sel, pend, trigger, cleanupErr, startErr, result,
                evVars>>
fsVars     == <<ws, meta, cleanupCalls>>
procVars   == <<procs, killInvoked, killReturned>>
histVars   == <<emuSel, rootChecks, recreations, proxyOutcome>>
stopVars   == <<stopPc, stopArg, stopTarget, stopErr, stopHist>>
vars == <<staticVars, faults, avdExists, callVars, fsVars, procVars, histVars, stopVars,
          proxyCleared, pf, unitVars>>

\* the environment injects a fault in this step / the step runs without one
Fault == faults < MaxFaults /\ faults' = faults + 1
Calm  == faults' = faults

----------------------------------------------------------------------------
(* Errors *)

\* low-level errors that are not SniaffError/SmaliusError instances
RawErrors == {"RAW_FS_ERROR", "RAW_KILL_ERROR"}

NoError == [kind |-> "NONE", cause |-> "NONE"]

\* mutant of Rethrow: a cleanup error of rollback replaces the original error
Rethrow_CleanupWins(err, cleanup) ==
    IF cleanup # "NONE" THEN [kind |-> "INTERNAL_ERROR", cause |-> cleanup]
    ELSE IF err \in RawErrors THEN [kind |-> "INTERNAL_ERROR", cause |-> err]
    ELSE [kind |-> err, cause |-> err]
\* mutant of Rethrow: the caught error is thrown as it is, typed or not
Rethrow_Raw(err, cleanup) == [kind |-> err, cause |-> err]
\* what the catch block throws after rollback: the caught error, wrapped if untyped
Rethrow(err, cleanup) ==
    IF err \in RawErrors THEN [kind |-> "INTERNAL_ERROR", cause |-> err]
    ELSE [kind |-> err, cause |-> err]

\* error instanceof SniaffError: the thrown value carries a code of the taxonomy
IsTyped(err) == err.kind \notin RawErrors \cup {"NONE"}

\* the start tool's catch block: a typed error is reported as it is, anything
\* else as INTERNAL_ERROR
ToolError(err) ==
    IF IsTyped(err) THEN err ELSE [kind |-> "INTERNAL_ERROR", cause |-> err.cause]

NoToolResult == [success |-> FALSE, isError |-> FALSE, state |-> "NONE", error |-> NoError]

\* the start tool's handler: what it returns once startSession has returned
\* (outcome "done") or thrown (outcome "failed")
StartToolResult(outcome, payload, err) ==
    CASE outcome = "done" ->
            [success |-> TRUE, isError |-> FALSE, state |-> payload.state, error |-> NoError]
      [] outcome = "failed" ->
            [success |-> FALSE, isError |-> TRUE, state |-> "NONE", error |-> ToolError(err)]
      [] OTHER -> NoToolResult

----------------------------------------------------------------------------
(* Environment: processes and ports *)

Pids == 1..Len(procs)

Running(p) == p \in Pids /\ procs[p].status # "exited"

\* ports on which a listener cannot bind right now
Occupied == extOccupied \cup {procs[p].port : p \in {q \in Pids : procs[q].status = "bound"}}

\* `adb devices` lists emulator-<consolePort>
DeviceRegistered(consolePort) ==
    \E p \in Pids : /\ procs[p].kind = "emulator"
                    /\ procs[p].port = consolePort
                    /\ procs[p].status = "bound"

\* supervisor.spawn: a child process that has not yet bound its port
Spawned(kind, port, owner) ==
    Append(procs, [kind |-> kind, port |-> port, status |-> "starting", owner |-> owner])

\* supervisor.kill(pid): terminates the process, or fails and leaves it
Killed(pid, ok) == IF ok /\ pid \in Pids THEN [procs EXCEPT ![pid].status = "exited"] ELSE procs

\* adapter stop(pid) returned: the process is confirmed stopped
StopReturned(done, pid, ok) == IF ok THEN done \cup {pid} ELSE done

\* a spawned process binds its port; if the port is taken it exits (address in use)
ProcBind(p) ==
    /\ p \in Pids
    /\ procs[p].status = "starting"
    /\ procs' = [procs EXCEPT ![p].status =
                    IF procs[p].port \in Occupied THEN "exited" ELSE "bound"]
    /\ Calm
    /\ UNCHANGED <<staticVars, avdExists, callVars, fsVars, killInvoked, killReturned, histVars,
                   stopVars, proxyCleared, pf, unitVars>>

\* a spawned process exits by itself while starting up
ProcExit(p) ==
    /\ p \in Pids
    /\ procs[p].status = "starting"
    /\ procs' = [procs EXCEPT ![p].status = "exited"]
    /\ Fault
    /\ UNCHANGED <<staticVars, avdExists, callVars, fsVars, killInvoked, killReturned, histVars,
                   stopVars, proxyCleared, pf, unitVars>>

----------------------------------------------------------------------------
(* Workspace store *)

InitialMeta == [state |-> "CREATE_WORKSPACE", mitmPort |-> 0, emulatorPort |-> 0, adbPort |-> 0]
NoMeta == [state |-> "NONE"]

\* mutant of MergeMeta: the spread is the other way round, existing fields win
MergeMeta_ExistingWins(existing, partial) ==
    [f \in (DOMAIN existing) \cup (DOMAIN partial) |->
        IF f \in DOMAIN existing THEN existing[f] ELSE partial[f]]
\* updateMeta's merge: { ...existing, ...partial }
MergeMeta(existing, partial) ==
    [f \in (DOMAIN existing) \cup (DOMAIN partial) |->
        IF f \in DOMAIN partial THEN partial[f] ELSE existing[f]]

\* updateMeta, when it returns: the merged record was written (merged), or
\* the try block failed, in reading the existing record or in writing the
\* merged one, and the catch block wrote the partial record alone
UpdateMeta(existing, partial, merged) ==
    IF merged THEN MergeMeta(existing, partial) ELSE partial

\* mutant of RollbackMeta: rollback leaves the record as it was
RollbackMeta_Skip(existing, merged) == existing
\* rollback's updateMeta(sessionId, { state: ERROR })
RollbackMeta(existing, merged) == UpdateMeta(existing, [state |-> "ERROR"], merged)

\* mutant of CleanupWorkspace: the directory is left in place
CleanupWorkspace_Keep(w, id) == w
\* cleanup: fs.rm(basePath, { recursive, force })
CleanupWorkspace(w, id) == [w EXCEPT ![id] = FALSE]

----------------------------------------------------------------------------
(* Adapters: port selection policies *)

\* the emulator range as probed; only these ports matter to the emulator adapter
EmuPorts == DefaultEmulatorPort..EmulatorPortEnd

\* EmulatorAdapter.start: options.port || default, rounded up to even, then scanned
EmulatorSelectPort(req, occ) ==
    LET wanted    == IF req # 0 THEN req ELSE DefaultEmulatorPort
        candidate == IF wanted % 2 # 0 THEN wanted + 1 ELSE wanted
    IN  FindAvailableEven(candidate, EmulatorPortEnd, occ)

\* mutant of AdbPortOf: the control port is the console port itself
AdbPortOf_Same(consolePort) == consolePort
\* the control (adb) port derived from the console port
AdbPortOf(consolePort) == consolePort + 1

RECURSIVE MitmRetry(_, _, _)
\* MitmAdapter.start: portRetryAttempts sequential candidates
MitmRetry(port, attempt, occ) ==
    IF attempt >= PortRetryAttempts THEN NoPort
    ELSE IF IsAvailable(port, occ) THEN port
    ELSE MitmRetry(port + 1, attempt + 1, occ)

\* mutant of MitmSelectPort: the default range is not scanned
MitmSelectPort_RetryOnly(req, occ) ==
    MitmRetry(IF req # 0 THEN req ELSE DefaultMitmPort, 0, occ)
\* MitmAdapter.start: sequential retry, then a scan of the default range
MitmSelectPort(req, occ) ==
    LET wanted == IF req # 0 THEN req ELSE DefaultMitmPort
        first  == MitmRetry(wanted, 0, occ)
    IN  IF first # NoPort THEN first
        ELSE FindAvailable(DefaultMitmPort, DefaultMitmPort + MitmScanSpan, occ)

----------------------------------------------------------------------------
(* SessionManager.startSession *)

NullSession == [state |-> "IDLE", mitmPort |-> 0, emulatorPort |-> 0, adbPort |-> 0,
                mitmPid |-> NoPid, emulatorPid |-> NoPid]

NoResult == [state |-> "NONE"]

\* requested console ports: absent (the default is used), and an odd one next to
\* the end of the range
EmuPortInputs == {0, EmulatorPortEnd - 1}
MitmPortInputs == {0}
StartInputs == [emulatorPort : EmuPortInputs, mitmPort : MitmPortInputs]

\* errors of the device-image setup adapter
SetupErrors == {"AVD_CREATE_FAILED", "ROOTAVD_FAILED"}
\* errors of listAvds and of the AVD lookup
EmuListErrors == {"EMULATOR_BINARY_NOT_FOUND", "EMULATOR_START_FAILED", "AVD_NOT_FOUND"}
EmuSpawnErrors == {"EMULATOR_BINARY_NOT_FOUND", "EMULATOR_START_FAILED"}
MitmSpawnErrors == {"MITMDUMP_NOT_FOUND", "MITM_START_FAILED"}

\* mutant of RollbackKillsMitm: rollback forgets the proxy process
RollbackKillsMitm_Never(session) == FALSE
\* rollback stops the proxy iff a proxy pid is recorded
RollbackKillsMitm(session) == variant = "proxy" /\ session.mitmPid # NoPid

\* mutant of RollbackPc: the proxy is stopped first and the emulator is skipped
RollbackPc_MitmFirst(session) ==
    IF RollbackKillsMitm(session) THEN "rb_mitm" ELSE "rb_meta"
\* rollback up to its first await: the step it suspends at
RollbackPc(session) ==
    IF session.emulatorPid # NoPid THEN "rb_emu"
    ELSE IF RollbackKillsMitm(session) THEN "rb_mitm"
    ELSE "rb_meta"

\* the catch block of startSession: the error is caught and rollback begins;
\* with a null session rollback returns at once and the error is thrown
Throw(s, err) ==
    /\ trigger' = [trigger EXCEPT ![s] = err]
    /\ IF sess[s].state = "IDLE"
         THEN /\ pc' = [pc EXCEPT ![s] = "failed"]
              /\ startErr' = [startErr EXCEPT ![s] = Rethrow(err, "NONE")]
              /\ sess' = sess
         ELSE /\ pc' = [pc EXCEPT ![s] = RollbackPc(sess[s])]
              /\ sess' = [sess EXCEPT ![s].state = "ERROR"]
              /\ startErr' = startErr

\* the updateState calls made in the step the call of s takes: the states
\* carried by the stateChange events it emits, in order
Emitted(s) ==
    LET from == pc[s]
        to   == pc'[s]
    IN  CASE from = "idle" ->
                <<IF variant = "elevation" THEN "SETUP_AVD" ELSE "CREATE_WORKSPACE">>
          [] from = "setup_avd" /\ to = "create_ws" -> <<"CREATE_WORKSPACE">>
          [] from = "create_ws" /\ to = "mitm_launch" -> <<"START_MITM">>
          [] from = "create_ws" /\ to = "emu_launch" -> <<"START_EMULATOR">>
          [] from = "mitm_settle" /\ to = "emu_launch" -> <<"START_EMULATOR">>
          [] from = "emu_settle" /\ to = "wait_device" -> <<"WAIT_BOOT">>
          [] from = "wait_boot" /\ to = "set_proxy" -> <<"CONFIGURE_PROXY">>
          [] from \in {"set_proxy", "check_root"} /\ to = "final_meta" -> <<"READY">>
          [] from \in {"check_root", "retry_stop"} /\ to = "recreate" -> <<"SETUP_AVD">>
          [] from = "recreate" /\ to = "emu_launch" -> <<"START_EMULATOR">>
          [] OTHER -> <<>>

\* the values the step stores in the state field of the Session of s: the
\* Session is created with CREATE_WORKSPACE and the next state is assigned
\* before the next await; later steps assign one state or none
Stored(s) ==
    IF sess[s].state = "IDLE" /\ sess'[s].state # "IDLE"
      THEN <<"CREATE_WORKSPACE", sess'[s].state>>
    ELSE IF sess'[s].state # sess[s].state THEN <<sess'[s].state>>
    ELSE <<>>

\* what the step of the call of s adds to the emitted events and to the stored
\* states
Announce(s) ==
    /\ events' = [events EXCEPT ![s] = @ \o Emitted(s)]
    /\ stateLog' = [stateLog EXCEPT ![s] = @ \o Stored(s)]

\* startSession is called: a fresh id is generated (ids are handed out in order)
\* and the first phase is awaited
StartSession(s, in) ==
    /\ pc[s] = "idle"
    /\ \A t \in SessionIds : t < s => pc[t] # "idle"
    /\ input' = [input EXCEPT ![s] = in]
    /\ pc' = [pc EXCEPT ![s] = IF variant = "elevation" THEN "setup_avd" ELSE "create_ws"]
    /\ Calm
    /\ UNCHANGED <<staticVars, avdExists, pass, sess, registry, sel, pend, trigger,
                   cleanupErr, startErr, result, fsVars, procVars, histVars, stopVars,
                   proxyCleared, pf, unitVars>>
    /\ Announce(s)

\* SETUP_AVD (elevation variant): ensureSniaffAvd returns or throws
SetupAvd(s) ==
    /\ pc[s] = "setup_avd"
    /\ \/ /\ avdExists' = TRUE
          /\ pc' = [pc EXCEPT ![s] = "create_ws"]
          /\ UNCHANGED <<sess, trigger, startErr>>
          /\ Calm
       \/ /\ ~avdExists
          /\ \E e \in SetupErrors : Throw(s, e)
          /\ \E left \in BOOLEAN : avdExists' = left
          /\ Fault
    /\ UNCHANGED <<staticVars, pass, input, registry, sel, pend, cleanupErr, result,
                   fsVars, procVars, histVars, stopVars, proxyCleared, pf, unitVars>>
    /\ Announce(s)

\* mutant of AfterWorkspacePc: the emulator is started right after the workspace
AfterWorkspacePc_SkipProxy(v) == "emu_launch"
\* the adapter start awaited after the workspace phase
AfterWorkspacePc(v) == IF v = "proxy" THEN "mitm_launch" ELSE "emu_launch"

\* CREATE_WORKSPACE: create() resolves, the session is registered and the next
\* phase's adapter start is called; or create() throws
CreateWorkspace(s) ==
    /\ pc[s] = "create_ws"
    /\ \/ /\ ws' = [ws EXCEPT ![s] = TRUE]
          /\ meta' = [meta EXCEPT ![s] = InitialMeta]
          /\ sess' = [sess EXCEPT ![s] =
                [NullSession EXCEPT !.state =
                    IF variant = "proxy" THEN "START_MITM" ELSE "START_EMULATOR"]]
          /\ registry' = registry \cup {s}
          /\ pc' = [pc EXCEPT ![s] = AfterWorkspacePc(variant)]
          /\ UNCHANGED <<trigger, startErr>>
          /\ Calm
       \/ /\ Throw(s, "WORKSPACE_CREATE_FAILED")
          /\ UNCHANGED <<ws, meta, registry>>
          /\ Fault
    /\ UNCHANGED <<staticVars, avdExists, pass, input, sel, pend, cleanupErr, result,
                   cleanupCalls, procVars, histVars, stopVars, proxyCleared, pf, unitVars>>
    /\ Announce(s)

\* START_MITM: the port is selected and mitmdump is spawned
MitmLaunch(s) ==
    /\ pc[s] = "mitm_launch"
    /\ LET port == MitmSelectPort(input[s].mitmPort, Occupied) IN
       \/ /\ port = NoPort
          /\ Throw(s, "MITM_PORT_UNAVAILABLE")
          /\ UNCHANGED <<procs, sel, pend>>
          /\ Calm
       \/ /\ port # NoPort
          /\ procs' = Spawned("mitm", port, s)
          /\ sel' = [sel EXCEPT ![s] = port]
          /\ pend' = [pend EXCEPT ![s] = Len(procs) + 1]
          /\ pc' = [pc EXCEPT ![s] = "mitm_settle"]
          /\ UNCHANGED <<sess, trigger, startErr>>
          /\ Calm
       \/ /\ port # NoPort
          /\ \E e \in MitmSpawnErrors : Throw(s, e)
          /\ UNCHANGED <<procs, sel, pend>>
          /\ Fault
    /\ UNCHANGED <<staticVars, avdExists, pass, input, registry, cleanupErr, result,
                   fsVars, killInvoked, killReturned, histVars, stopVars, proxyCleared, pf, unitVars>>
    /\ Announce(s)

\* mutant of StillRunning: the liveness check is skipped
StillRunning_Unchecked(pid) == TRUE
\* the adapters' liveness check after the settle delay: supervisor.isRunning(pid)
StillRunning(pid) == Running(pid)

\* START_MITM: after the settle delay the liveness check decides; on success the
\* pid and port are recorded and the emulator adapter's start is called
MitmSettle(s) ==
    /\ pc[s] = "mitm_settle"
    /\ IF StillRunning(pend[s])
         THEN /\ sess' = [sess EXCEPT ![s].mitmPort = sel[s], ![s].mitmPid = pend[s],
                                      ![s].state = "START_EMULATOR"]
              /\ pc' = [pc EXCEPT ![s] = "emu_launch"]
              /\ UNCHANGED <<trigger, startErr>>
         ELSE Throw(s, "MITM_START_FAILED")
    /\ sel' = [sel EXCEPT ![s] = NoPort]
    /\ pend' = [pend EXCEPT ![s] = NoPid]
    /\ Calm
    /\ UNCHANGED <<staticVars, avdExists, pass, input, registry, cleanupErr,
                   result, fsVars, procVars, histVars, stopVars, proxyCleared, pf, unitVars>>
    /\ Announce(s)

\* START_EMULATOR: the AVD list is read, the console port is selected and the
\* emulator is spawned
EmuLaunch(s) ==
    /\ pc[s] = "emu_launch"
    /\ \/ /\ \E e \in EmuListErrors :
                /\ e = "AVD_NOT_FOUND" => (variant = "proxy" \/ ~avdExists)
                /\ Throw(s, e)
                /\ IF e = "AVD_NOT_FOUND" /\ variant = "elevation" THEN Calm ELSE Fault
          /\ UNCHANGED <<procs, sel, pend, emuSel>>
       \/ /\ variant = "elevation" => avdExists
          /\ LET occ  == Occupied \cap EmuPorts
                 port == EmulatorSelectPort(input[s].emulatorPort, occ)
             IN  /\ emuSel' = [emuSel EXCEPT ![s] =
                        [req |-> input[s].emulatorPort, occ |-> occ, port |-> port]]
                 /\ \/ /\ port = NoPort
                       /\ Throw(s, "EMULATOR_START_FAILED")
                       /\ UNCHANGED <<procs, sel, pend>>
                       /\ Calm
                    \/ /\ port # NoPort
                       /\ procs' = Spawned("emulator", port, s)
                       /\ sel' = [sel EXCEPT ![s] = port]
                       /\ pend' = [pend EXCEPT ![s] = Len(procs) + 1]
                       /\ pc' = [pc EXCEPT ![s] = "emu_settle"]
                       /\ UNCHANGED <<sess, trigger, startErr>>
                       /\ Calm
                    \/ /\ port # NoPort
                       /\ \E e \in EmuSpawnErrors : Throw(s, e)
                       /\ UNCHANGED <<procs, sel, pend>>
                       /\ Fault
    /\ UNCHANGED <<staticVars, avdExists, pass, input, registry, cleanupErr, result,
                   fsVars, killInvoked, killReturned, rootChecks, recreations, proxyOutcome,
                   stopVars,
                   proxyCleared, pf, unitVars>>
    /\ Announce(s)

\* START_EMULATOR: liveness check after the settle delay; on success the ports
\* and pid are recorded and waitForBoot is called
EmuSettle(s) ==
    /\ pc[s] = "emu_settle"
    /\ IF StillRunning(pend[s])
         THEN /\ sess' = [sess EXCEPT ![s].emulatorPort = sel[s],
                                      ![s].adbPort = AdbPortOf(sel[s]),
                                      ![s].emulatorPid = pend[s],
                                      ![s].state = "WAIT_BOOT"]
              /\ pc' = [pc EXCEPT ![s] = "wait_device"]
              /\ UNCHANGED <<trigger, startErr>>
         ELSE Throw(s, "EMULATOR_START_FAILED")
    /\ sel' = [sel EXCEPT ![s] = NoPort]
    /\ pend' = [pend EXCEPT ![s] = NoPid]
    /\ Calm
    /\ UNCHANGED <<staticVars, avdExists, pass, input, registry, cleanupErr,
                   result, fsVars, procVars, histVars, stopVars, proxyCleared, pf, unitVars>>
    /\ Announce(s)

\* WAIT_BOOT, waitForDevice: the device shows up in `adb devices`, or the wait
\* times out, or adb is missing
WaitDevice(s) ==
    /\ pc[s] = "wait_device"
    /\ \/ /\ DeviceRegistered(sess[s].adbPort - 1)
          /\ pc' = [pc EXCEPT ![s] = "wait_boot"]
          /\ UNCHANGED <<sess, trigger, startErr>>
          /\ Calm
       \/ /\ Throw(s, "EMULATOR_BOOT_TIMEOUT")
          /\ IF DeviceRegistered(sess[s].adbPort - 1) THEN Fault ELSE Calm
       \/ /\ Throw(s, "ADB_NOT_FOUND")
          /\ Fault
    /\ UNCHANGED <<staticVars, avdExists, pass, input, registry, sel, pend, cleanupErr,
                   result, fsVars, procVars, histVars, stopVars, proxyCleared, pf, unitVars>>
    /\ Announce(s)

\* WAIT_BOOT, boot poll: sys.boot_completed reads 1, or the wait times out
WaitBoot(s) ==
    /\ pc[s] = "wait_boot"
    /\ \/ /\ DeviceRegistered(sess[s].adbPort - 1)
          /\ IF variant = "proxy"
               THEN /\ sess' = [sess EXCEPT ![s].state = "CONFIGURE_PROXY"]
                    /\ pc' = [pc EXCEPT ![s] = "set_proxy"]
               ELSE /\ sess' = sess
                    /\ pc' = [pc EXCEPT ![s] = "check_root"]
          /\ UNCHANGED <<trigger, startErr>>
          /\ Calm
       \/ /\ Throw(s, "EMULATOR_BOOT_TIMEOUT")
          /\ IF DeviceRegistered(sess[s].adbPort - 1) THEN Fault ELSE Calm
    /\ UNCHANGED <<staticVars, avdExists, pass, input, registry, sel, pend, cleanupErr,
                   result, fsVars, procVars, histVars, stopVars, proxyCleared, pf, unitVars>>
    /\ Announce(s)

\* mutant of RetryAllowed: a failed check after the recreation triggers another one
RetryAllowed_Again(passNo) == passNo <= 2
\* the root check is followed by a recreation only on the first pass
RetryAllowed(passNo) == passNo = 1

\* mutant of RootVerified: a failed root check is taken as passed
RootVerified_Always(isRooted) == TRUE
\* the branch condition on checkRootStatus' result
RootVerified(isRooted) == isRooted

\* mutant of RetryPc: the recreation begins without stopping the emulator
RetryPc_NoStop(session) == "recreate"
\* first await of the recreation path: the emulator stop if a pid is recorded,
\* else forceRecreateAvd
RetryPc(session) == IF session.emulatorPid # NoPid THEN "retry_stop" ELSE "recreate"

\* the session enters READY and the final updateMeta is called
EnterReady(s) ==
    /\ sess' = [sess EXCEPT ![s].state = "READY"]
    /\ pc' = [pc EXCEPT ![s] = "final_meta"]
    /\ UNCHANGED <<trigger, startErr>>

\* mutant of ProxyFailureSwallowed: a failing setProxy is fatal
ProxyFailureSwallowed_Not == FALSE
\* the try/catch around setProxy: its failure is logged and pushed as a warning
ProxyFailureSwallowed == TRUE

\* CONFIGURE_PROXY (proxy variant): setProxy resolves or throws; both reach READY
SetProxy(s) ==
    /\ pc[s] = "set_proxy"
    /\ \E ok \in BOOLEAN :
          /\ ok => DeviceRegistered(sess[s].adbPort - 1)
          /\ IF ~ok /\ DeviceRegistered(sess[s].adbPort - 1) THEN Fault ELSE Calm
          /\ proxyOutcome' = [proxyOutcome EXCEPT ![s] = IF ok THEN "ok" ELSE "failed"]
          /\ IF ok \/ ProxyFailureSwallowed
               THEN /\ result' = [result EXCEPT ![s] =
                          [state |-> "PENDING", proxyConfigured |-> ok,
                           warnings |-> IF ok THEN {} ELSE {"DEVICE_PROXY_CONFIG_FAILED"}]]
                    /\ EnterReady(s)
               ELSE /\ Throw(s, "PROXY_CONFIG_FAILED")
                    /\ UNCHANGED result
    /\ UNCHANGED <<staticVars, avdExists, pass, input, registry, sel, pend, cleanupErr,
                   fsVars, procVars, emuSel, rootChecks, recreations, stopVars,
                   proxyCleared, pf, unitVars>>
    /\ Announce(s)

\* post-boot root check (elevation variant), answered by the device on the
\* session's adb port: passed -> READY; failed on the first
\* pass -> the emulator is stopped for recreation; failed again -> ROOT_CHECK_FAILED
CheckRoot(s) ==
    /\ pc[s] = "check_root"
    /\ \E isRooted \in BOOLEAN :
          /\ isRooted => DeviceRegistered(sess[s].adbPort - 1)
          /\ rootChecks' = [rootChecks EXCEPT ![s] = Append(@, isRooted)]
          /\ IF RootVerified(isRooted)
               THEN /\ EnterReady(s)
                    /\ result' = [result EXCEPT ![s] =
                          [state |-> "PENDING", proxyConfigured |-> FALSE,
                           warnings |-> IF pass[s] > 1 THEN {"AVD_RECREATED"} ELSE {}]]
               ELSE /\ IF RetryAllowed(pass[s])
                         THEN /\ pc' = [pc EXCEPT ![s] = RetryPc(sess[s])]
                              /\ UNCHANGED <<sess, trigger, startErr>>
                         ELSE Throw(s, "ROOT_CHECK_FAILED")
                    /\ UNCHANGED result
    /\ recreations' = [recreations EXCEPT ![s] =
          IF pc'[s] = "recreate" THEN @ + 1 ELSE @]
    /\ Calm
    /\ UNCHANGED <<staticVars, avdExists, pass, input, registry, sel, pend, cleanupErr,
                   fsVars, procVars, emuSel, proxyOutcome, stopVars, proxyCleared, pf, unitVars>>
    /\ Announce(s)

\* recreation path: the non-rooted emulator is stopped and its pid cleared, then
\* forceRecreateAvd is called; a failing stop is thrown
RetryStop(s) ==
    /\ pc[s] = "retry_stop"
    /\ killInvoked' = killInvoked \cup {sess[s].emulatorPid}
    /\ \E ok \in BOOLEAN :
          /\ procs' = Killed(sess[s].emulatorPid, ok)
          /\ killReturned' = StopReturned(killReturned, sess[s].emulatorPid, ok)
          /\ IF ok
               THEN /\ sess' = [sess EXCEPT ![s].emulatorPid = NoPid]
                    /\ pc' = [pc EXCEPT ![s] = "recreate"]
                    /\ recreations' = [recreations EXCEPT ![s] = @ + 1]
                    /\ UNCHANGED <<trigger, startErr>>
                    /\ Calm
               ELSE /\ Throw(s, "RAW_KILL_ERROR")
                    /\ UNCHANGED recreations
                    /\ Fault
    /\ UNCHANGED <<staticVars, avdExists, pass, input, registry, sel, pend, cleanupErr,
                   result, fsVars, emuSel, rootChecks, proxyOutcome, stopVars, proxyCleared, pf, unitVars>>
    /\ Announce(s)

\* forceRecreateAvd resolves (the emulator start of the second pass is called) or throws
Recreate(s) ==
    /\ pc[s] = "recreate"
    /\ \/ /\ avdExists' = TRUE
          /\ sess' = [sess EXCEPT ![s].state = "START_EMULATOR"]
          /\ pass' = [pass EXCEPT ![s] = @ + 1]
          /\ pc' = [pc EXCEPT ![s] = "emu_launch"]
          /\ UNCHANGED <<trigger, startErr>>
          /\ Calm
       \/ /\ \E e \in SetupErrors : Throw(s, e)
          /\ \E left \in BOOLEAN : avdExists' = left
          /\ UNCHANGED pass
          /\ Fault
    /\ UNCHANGED <<staticVars, input, registry, sel, pend, cleanupErr, result,
                   fsVars, procVars, histVars, stopVars, proxyCleared, pf, unitVars>>
    /\ Announce(s)

\* mutant of FinalMetaOf: the ports are left out of the final record
FinalMetaOf_StateOnly(session) == [state |-> session.state]
\* the fields of the session written to meta.json at READY
FinalMetaOf(session) ==
    [state |-> session.state, mitmPort |-> session.mitmPort,
     emulatorPort |-> session.emulatorPort, adbPort |-> session.adbPort]

\* READY: the final updateMeta resolves and the result is returned, or it throws
FinalMeta(s) ==
    /\ pc[s] = "final_meta"
    /\ \/ /\ ws[s]
          /\ \E merged \in BOOLEAN :
                /\ meta' = [meta EXCEPT ![s] = UpdateMeta(@, FinalMetaOf(sess[s]), merged)]
                /\ IF merged THEN Calm ELSE Fault
          /\ result' = [result EXCEPT ![s] =
                [state |-> "READY", mitmPort |-> sess[s].mitmPort,
                 emulatorPort |-> sess[s].emulatorPort, adbPort |-> sess[s].adbPort,
                 proxyConfigured |-> @.proxyConfigured, warnings |-> @.warnings]]
          /\ pc' = [pc EXCEPT ![s] = "done"]
          /\ UNCHANGED <<sess, trigger, startErr>>
       \/ /\ Throw(s, "RAW_FS_ERROR")
          /\ UNCHANGED <<meta, result>>
          /\ IF ws[s] THEN Fault ELSE Calm
    /\ UNCHANGED <<staticVars, avdExists, pass, input, registry, sel, pend, cleanupErr,
                   ws, cleanupCalls, procVars, histVars, stopVars, proxyCleared, pf, unitVars>>
    /\ Announce(s)

----------------------------------------------------------------------------
(* SessionManager.rollback *)

\* mutant of RollbackRegistry: the failed session stays registered
RollbackRegistry_Keep(reg, s) == reg
\* mutant of RollbackRegistry: rollback empties the registry
RollbackRegistry_All(reg, s) == {}
\* this.sessions.delete(session.sessionId)
RollbackRegistry(reg, s) == reg \ {s}

\* mutant of RollbackWorkspace: rollback deletes the workspace directory
RollbackWorkspace_Cleanup(w, s) == [w EXCEPT ![s] = FALSE]
\* rollback keeps the workspace for debugging: no cleanup call is made
RollbackWorkspace(w, s) == w

\* rollback: emulatorAdapter.stop resolves or throws (swallowed)
RollbackStopEmulator(s) ==
    /\ pc[s] = "rb_emu"
    /\ killInvoked' = killInvoked \cup {sess[s].emulatorPid}
    /\ \E ok \in BOOLEAN :
          /\ procs' = Killed(sess[s].emulatorPid, ok)
          /\ killReturned' = StopReturned(killReturned, sess[s].emulatorPid, ok)
          /\ cleanupErr' = [cleanupErr EXCEPT ![s] = IF ok THEN @ ELSE "RAW_KILL_ERROR"]
          /\ IF ok THEN Calm ELSE Fault
    /\ pc' = [pc EXCEPT ![s] = IF RollbackKillsMitm(sess[s]) THEN "rb_mitm" ELSE "rb_meta"]
    /\ UNCHANGED <<staticVars, avdExists, pass, input, sess, registry, sel, pend, trigger,
                   startErr, result, fsVars, histVars, stopVars, proxyCleared, pf, unitVars>>
    /\ Announce(s)

\* rollback: mitmAdapter.stop resolves or throws (swallowed)
RollbackStopMitm(s) ==
    /\ pc[s] = "rb_mitm"
    /\ killInvoked' = killInvoked \cup {sess[s].mitmPid}
    /\ \E ok \in BOOLEAN :
          /\ procs' = Killed(sess[s].mitmPid, ok)
          /\ killReturned' = StopReturned(killReturned, sess[s].mitmPid, ok)
          /\ cleanupErr' = [cleanupErr EXCEPT ![s] = IF ok THEN @ ELSE "RAW_KILL_ERROR"]
          /\ IF ok THEN Calm ELSE Fault
    /\ pc' = [pc EXCEPT ![s] = "rb_meta"]
    /\ UNCHANGED <<staticVars, avdExists, pass, input, sess, registry, sel, pend, trigger,
                   startErr, result, fsVars, histVars, stopVars, proxyCleared, pf, unitVars>>
    /\ Announce(s)

\* rollback: updateMeta({state: ERROR}) resolves or throws (swallowed); the session
\* is removed from the registry and the caught error is thrown to the caller
RollbackFinish(s) ==
    /\ pc[s] = "rb_meta"
    /\ \/ /\ ws[s]
          /\ \E merged \in BOOLEAN :
                /\ meta' = [meta EXCEPT ![s] = RollbackMeta(@, merged)]
                /\ IF merged THEN Calm ELSE Fault
          /\ UNCHANGED cleanupErr
       \/ /\ cleanupErr' = [cleanupErr EXCEPT ![s] = "RAW_FS_ERROR"]
          /\ UNCHANGED meta
          /\ IF ws[s] THEN Fault ELSE Calm
    /\ registry' = RollbackRegistry(registry, s)
    /\ startErr' = [startErr EXCEPT ![s] = Rethrow(trigger[s], cleanupErr'[s])]
    /\ pc' = [pc EXCEPT ![s] = "failed"]
    /\ ws' = RollbackWorkspace(ws, s)
    /\ UNCHANGED <<staticVars, avdExists, pass, input, sess, sel, pend, trigger, result,
                   cleanupCalls, procVars, histVars, stopVars, proxyCleared, pf, unitVars>>
    /\ Announce(s)

----------------------------------------------------------------------------
(* SessionManager.stopSession *)

NoStopHist == [found |-> FALSE, afterSuccess |-> FALSE, failedAt |-> "none"]

\* the Session object a stopSession call holds
SessionOf(id) == IF id \in SessionIds THEN sess[id] ELSE NullSession

\* mutant of Lookup: a session that was removed is still found
Lookup_Stale(reg, id) == id \in SessionIds /\ sess[id].state # "IDLE"
\* this.sessions.get(sessionId) is defined
Lookup(reg, id) == id \in reg

\* mutant of StopRegistry: the stopped session stays registered
StopRegistry_Keep(reg, id) == reg
\* this.sessions.delete(sessionId)
StopRegistry(reg, id) == reg \ {id}

\* mutant of StopPcFrom: the workspace is cleaned up without stopping processes
StopPcFrom_SkipKills(stage, session) ==
    IF stage <= 1 /\ variant = "proxy" /\ session.adbPort # 0 THEN "clear_proxy"
    ELSE "cleanup"
\* the teardown step stopSession suspends at next, from `stage` on:
\* 1 clearProxy (proxy variant, if adbPort), 2 emulator stop (if emulatorPid),
\* 3 proxy stop (proxy variant, if mitmPid), then workspace cleanup
StopPcFrom(stage, session) ==
    IF stage <= 1 /\ variant = "proxy" /\ session.adbPort # 0 THEN "clear_proxy"
    ELSE IF stage <= 2 /\ session.emulatorPid # NoPid THEN "stop_emu"
    ELSE IF stage <= 3 /\ variant = "proxy" /\ session.mitmPid # NoPid THEN "stop_mitm"
    ELSE "cleanup"

\* the argument of the call awaited at that step
StopTargetOf(step, session) ==
    CASE step = "clear_proxy" -> session.adbPort
      [] step = "stop_emu"    -> session.emulatorPid
      [] step = "stop_mitm"   -> session.mitmPid
      [] OTHER                -> 0

\* the call proceeds to the teardown step after `stage`
StopAdvance(k, id, stage) ==
    LET next == StopPcFrom(stage, SessionOf(id)) IN
    /\ stopPc' = [stopPc EXCEPT ![k] = next]
    /\ stopTarget' = [stopTarget EXCEPT ![k] = StopTargetOf(next, SessionOf(id))]

\* the call throws
StopThrow(k, err, at) ==
    /\ stopPc' = [stopPc EXCEPT ![k] = "failed"]
    /\ stopErr' = [stopErr EXCEPT ![k] = err]
    /\ stopHist' = [stopHist EXCEPT ![k].failedAt = at]
    /\ UNCHANGED stopTarget

\* stopSession is called: unknown id -> SESSION_NOT_FOUND; else the teardown begins
StopSession(k, id) ==
    /\ stopPc[k] = "idle"
    /\ \A j \in StopCalls : j < k => stopPc[j] # "idle"
    /\ stopArg' = [stopArg EXCEPT ![k] = id]
    /\ IF Lookup(registry, id)
         THEN /\ StopAdvance(k, id, 1)
              /\ stopHist' = [stopHist EXCEPT ![k] =
                    [found |-> TRUE, afterSuccess |-> pc[id] = "done", failedAt |-> "none"]]
              /\ UNCHANGED stopErr
         ELSE /\ stopPc' = [stopPc EXCEPT ![k] = "failed"]
              /\ stopErr' = [stopErr EXCEPT ![k] = "SESSION_NOT_FOUND"]
              /\ UNCHANGED <<stopTarget, stopHist>>
    /\ Calm
    /\ UNCHANGED <<staticVars, avdExists, callVars, fsVars, procVars, histVars,
                   proxyCleared, pf, unitVars>>

\* clearProxy resolves (it swallows its own errors)
StopClearProxy(k) ==
    /\ stopPc[k] = "clear_proxy"
    /\ proxyCleared' = proxyCleared \cup {stopTarget[k]}
    /\ StopAdvance(k, stopArg[k], 2)
    /\ Calm
    /\ UNCHANGED <<staticVars, avdExists, callVars, fsVars, procVars, histVars,
                   stopArg, stopErr, stopHist, pf, unitVars>>

\* emulatorAdapter.stop resolves, or throws out of stopSession
StopEmulator(k) ==
    /\ stopPc[k] = "stop_emu"
    /\ killInvoked' = killInvoked \cup {stopTarget[k]}
    /\ \E ok \in BOOLEAN :
          /\ procs' = Killed(stopTarget[k], ok)
          /\ killReturned' = StopReturned(killReturned, stopTarget[k], ok)
          /\ IF ok THEN StopAdvance(k, stopArg[k], 3) /\ UNCHANGED <<stopErr, stopHist>>
                   ELSE StopThrow(k, "RAW_KILL_ERROR", "emu")
          /\ IF ok THEN Calm ELSE Fault
    /\ UNCHANGED <<staticVars, avdExists, callVars, fsVars, histVars, stopArg,
                   proxyCleared, pf, unitVars>>

\* mitmAdapter.stop resolves, or throws out of stopSession
StopMitm(k) ==
    /\ stopPc[k] = "stop_mitm"
    /\ killInvoked' = killInvoked \cup {stopTarget[k]}
    /\ \E ok \in BOOLEAN :
          /\ procs' = Killed(stopTarget[k], ok)
          /\ killReturned' = StopReturned(killReturned, stopTarget[k], ok)
          /\ IF ok THEN StopAdvance(k, stopArg[k], 4) /\ UNCHANGED <<stopErr, stopHist>>
                   ELSE StopThrow(k, "RAW_KILL_ERROR", "mitm")
          /\ IF ok THEN Calm ELSE Fault
    /\ UNCHANGED <<staticVars, avdExists, callVars, fsVars, histVars, stopArg,
                   proxyCleared, pf, unitVars>>

\* workspace cleanup resolves and the session is removed from the registry, or
\* cleanup throws out of stopSession
StopCleanup(k) ==
    /\ stopPc[k] = "cleanup"
    /\ cleanupCalls' = cleanupCalls \cup {stopArg[k]}
    /\ \/ /\ ws' = CleanupWorkspace(ws, stopArg[k])
          /\ meta' = [meta EXCEPT ![stopArg[k]] = NoMeta]
          /\ registry' = StopRegistry(registry, stopArg[k])
          /\ stopPc' = [stopPc EXCEPT ![k] = "done"]
          /\ UNCHANGED <<stopErr, stopHist, stopTarget>>
          /\ Calm
       \/ /\ StopThrow(k, "RAW_FS_ERROR", "cleanup")
          /\ UNCHANGED <<ws, meta, registry>>
          /\ Fault
    /\ UNCHANGED <<staticVars, avdExists, pc, pass, input, sess, sel, pend, trigger, evVars,
                   cleanupErr, startErr, result, procVars, histVars, stopArg,
                   proxyCleared, pf, unitVars>>

----------------------------------------------------------------------------
(* Port finder called on its own *)

\* the port window the standalone calls draw their ranges and listeners from
PFPorts == (EmulatorPortEnd - PFSpan)..EmulatorPortEnd

PFIdle == [at |-> "off", fn |-> "none", start |-> 0, end |-> 0, occ |-> {}, res |-> NoPort]

PFFindAvailable ==
    /\ pf.at = "call" /\ pf.fn = "findAvailable"
    /\ pf' = [pf EXCEPT !.at = "returned", !.res = FindAvailable(pf.start, pf.end, pf.occ)]
    /\ UNCHANGED <<staticVars, faults, avdExists, callVars, fsVars, procVars, histVars,
                   stopVars, proxyCleared, unitVars>>

PFFindAvailableEven ==
    /\ pf.at = "call" /\ pf.fn = "findAvailableEven"
    /\ pf' = [pf EXCEPT !.at = "returned", !.res = FindAvailableEven(pf.start, pf.end, pf.occ)]
    /\ UNCHANGED <<staticVars, faults, avdExists, callVars, fsVars, procVars, histVars,
                   stopVars, proxyCleared, unitVars>>

----------------------------------------------------------------------------
(* Specifications *)

----------------------------------------------------------------------------
(* EmulatorAdapter.waitForBoot and AvdSetupAdapter.waitForEmulatorBoot called on
   their own, against a device and a device-control command (adb) that behave
   arbitrarily. The clock `now` counts polling intervals; a delay takes one
   tick, a command invocation takes none or one, or never returns. *)

\* the clock stops here; no wait reads a later time
ClockCap == 2 * WaitTimeoutMax + 2

\* the console port that names the device: emulator-<adbPort - 1>
DeviceIdOf(adbPort) == adbPort - 1

\* the devices the waits are run against: the awaited one and a neighbour
WBDevices == {DefaultEmulatorPort, DefaultEmulatorPort + 2}

\* values of sys.boot_completed: unset, 0, 1
BootProps == {"", "0", "1"}

\* stdout.includes(deviceId): ids are emulator-<console port> with four-digit
\* ports, so one id is contained in the output iff that device is listed
DeviceListed(list, id) == id \in list

\* mutant of BootCompleted: any non-empty value counts as booted
BootCompleted_Any(value) == value # ""
\* stdout.trim() === '1'
BootCompleted(value) == value = "1"

\* mutant of TimeLeft: the deadline is never reached
TimeLeft_Always(now, start, timeout) == TRUE
\* loop condition of the polling loops: Date.now() - startTime < timeout
TimeLeft(now, start, timeout) == now - start < timeout

WBIdle == [fn |-> "none", at |-> "off", now |-> 0, start |-> 0, dstart |-> 0, timeout |-> 0,
           id |-> 0, list |-> {}, prop |-> "", sawDevice |-> FALSE, sawBoot |-> FALSE,
           last |-> "none", err |-> "NONE"]

WBThrown(w, e) == [w EXCEPT !.at = "thrown", !.err = e]

\* head of the boot-completion loop
BootLoopHead(w) ==
    IF TimeLeft(w.now, w.start, w.timeout) THEN [w EXCEPT !.at = "boot_exec"]
    ELSE WBThrown(w, "EMULATOR_BOOT_TIMEOUT")

\* head of the device-registration loop: waitForDevice throws when its time is
\* up; the bootstrap wait falls through to the boot-completion loop
DeviceLoopHead(w) ==
    IF TimeLeft(w.now, w.dstart, w.timeout) THEN [w EXCEPT !.at = "dev_exec"]
    ELSE IF w.fn = "waitForBoot" THEN WBThrown(w, "EMULATOR_BOOT_TIMEOUT")
    ELSE BootLoopHead(w)

\* the wait is called: the start times are taken and `adb devices` is run
WBCall ==
    /\ wb.at = "call"
    /\ wb' = DeviceLoopHead([wb EXCEPT !.start = wb.now, !.dstart = wb.now])
    /\ UNCHANGED <<staticVars, faults, avdExists, callVars, fsVars, procVars, histVars,
                   stopVars, proxyCleared, pf, setup, um, moreUnits>>

\* `adb devices` returns: the device is listed (on to the boot loop), or not, or
\* the command failed (swallowed; waitForDevice throws ADB_NOT_FOUND on ENOENT)
WBDevicesReturns ==
    /\ wb.at = "dev_exec"
    /\ \E d \in {0, 1} : \E res \in {"ok", "error", "enoent"} :
          LET w == [wb EXCEPT !.now = wb.now + d, !.last = res] IN
          /\ w.now <= ClockCap
          /\ wb' = IF res = "ok" /\ DeviceListed(wb.list, wb.id)
                     THEN BootLoopHead([w EXCEPT !.sawDevice = TRUE])
                   ELSE IF res = "enoent" /\ wb.fn = "waitForBoot"
                     THEN WBThrown(w, "ADB_NOT_FOUND")
                   ELSE [w EXCEPT !.at = "dev_delay"]
    /\ UNCHANGED <<staticVars, faults, avdExists, callVars, fsVars, procVars, histVars,
                   stopVars, proxyCleared, pf, setup, um, moreUnits>>

\* `adb shell getprop sys.boot_completed` returns: the value read, or an error
\* (always an error when the device is not there; swallowed)
WBGetpropReturns ==
    /\ wb.at = "boot_exec"
    /\ \E d \in {0, 1} : \E res \in {"ok", "error"} :
          LET w == [wb EXCEPT !.now = wb.now + d, !.last = res] IN
          /\ w.now <= ClockCap
          /\ res = "ok" => DeviceListed(wb.list, wb.id)
          /\ wb' = IF res = "ok" /\ BootCompleted(wb.prop)
                     THEN [w EXCEPT !.at = "returned", !.sawBoot = TRUE]
                   ELSE [w EXCEPT !.at = "boot_delay"]
    /\ UNCHANGED <<staticVars, faults, avdExists, callVars, fsVars, procVars, histVars,
                   stopVars, proxyCleared, pf, setup, um, moreUnits>>

\* the delay between two polls is over and the loop condition is evaluated
WBDelayReturns ==
    /\ wb.at \in {"dev_delay", "boot_delay"}
    /\ wb.now < ClockCap
    /\ LET w == [wb EXCEPT !.now = wb.now + 1] IN
       wb' = IF wb.at = "dev_delay" THEN DeviceLoopHead(w) ELSE BootLoopHead(w)
    /\ UNCHANGED <<staticVars, faults, avdExists, callVars, fsVars, procVars, histVars,
                   stopVars, proxyCleared, pf, setup, um, moreUnits>>

\* the device: it registers or drops out of the list, its boot marker changes
WBDeviceChanges ==
    /\ wb.at \in {"dev_exec", "dev_delay", "boot_exec", "boot_delay"}
    /\ \E list \in SUBSET WBDevices : \E prop \in BootProps :
          /\ <<list, prop>> # <<wb.list, wb.prop>>
          /\ wb' = [wb EXCEPT !.list = list, !.prop = prop]
    /\ UNCHANGED <<staticVars, faults, avdExists, callVars, fsVars, procVars, histVars,
                   stopVars, proxyCleared, pf, setup, um, moreUnits>>

----------------------------------------------------------------------------
(* AvdSetupAdapter.ensureSniaffAvd called on its own, against an SDK whose
   tools may be missing and whose commands may fail *)

NoSetupResult == [wasCreated |-> FALSE, wasRooted |-> FALSE, returned |-> FALSE]

SetupIdle == [at |-> "off", calls |-> 0,
              avd |-> FALSE, image |-> FALSE,
              sdkmanager |-> FALSE, avdmanager |-> FALSE, rootScript |-> FALSE,
              downloads |-> 0, creates |-> 0, spawns |-> 0, elevations |-> 0, kills |-> 0,
              listOk |-> FALSE, snap |-> <<>>, bootPid |-> NoPid, bootKilled |-> FALSE,
              stopFailed |-> FALSE, tryOutcome |-> "none",
              result |-> NoSetupResult, err |-> "NONE"]

\* what ensureSniaffAvd can change outside itself: image downloads, device
\* creations, bootstrap emulator starts, elevation runs, kills, the device and
\* the system image on disk
SetupEffects(w) ==
    <<w.downloads, w.creates, w.spawns, w.elevations, w.kills, w.avd, w.image>>

\* mutant of AvdPresent: the device is never found, setup always runs
AvdPresent_Never(listOk, exists) == FALSE
\* avdExists(): the listing succeeded and names the device; a failed listing
\* counts as absent
AvdPresent(listOk, exists) == listOk /\ exists

SetupThrown(w, e) == [w EXCEPT !.at = "thrown", !.err = e]

\* rootAvd up to its first await: the script must exist, then the bootstrap
\* emulator is spawned
RootAvdHead(w) ==
    IF ~w.rootScript THEN SetupThrown(w, "ROOTAVD_NOT_FOUND")
    ELSE [w EXCEPT !.at = "spawn"]

\* createAvd up to its first await: avdmanager must exist
CreateAvdHead(w) ==
    IF ~w.avdmanager THEN SetupThrown(w, "AVDMANAGER_NOT_FOUND")
    ELSE [w EXCEPT !.at = "create"]

\* ensureSystemImage up to its first await: an installed image is kept, else
\* sdkmanager must exist and the licences are accepted first
SystemImageHead(w) ==
    IF w.image THEN CreateAvdHead(w)
    ELSE IF ~w.sdkmanager THEN SetupThrown(w, "SDKMANAGER_NOT_FOUND")
    ELSE [w EXCEPT !.at = "licenses"]

\* rootAvd leaves its try/finally: the outcome of the try block is what the
\* caller gets (a raw error wrapped as ROOTAVD_FAILED)
RootAvdEnds(w) ==
    CASE w.tryOutcome = "ok"      ->
            [w EXCEPT !.at = "returned",
                      !.result = [wasCreated |-> TRUE, wasRooted |-> TRUE, returned |-> TRUE]]
      [] w.tryOutcome = "timeout" -> SetupThrown(w, "EMULATOR_BOOT_TIMEOUT")
      [] OTHER                    -> SetupThrown(w, "ROOTAVD_FAILED")

\* mutant of RootAvdFinally: the bootstrap emulator is stopped after success only
RootAvdFinally_SuccessOnly(outcome) == outcome = "ok"
\* the finally block of rootAvd runs whatever the try block's outcome
RootAvdFinally(outcome) == TRUE

\* the try block of rootAvd is left with this outcome
TryBlockEnds(w, outcome) ==
    LET v == [w EXCEPT !.tryOutcome = outcome] IN
    IF RootAvdFinally(outcome) THEN [v EXCEPT !.at = "stop_adb"] ELSE RootAvdEnds(v)

SetupStep(w) ==
    /\ setup' = w
    /\ UNCHANGED <<staticVars, faults, avdExists, callVars, fsVars, procVars, histVars,
                   stopVars, proxyCleared, pf, wb, um, moreUnits>>

\* ensureSniaffAvd is called: the device list is requested
SetupCall ==
    /\ setup.at \in {"call", "returned", "thrown"}
    /\ setup.calls < MaxEnsures
    /\ SetupStep([setup EXCEPT !.at = "list", !.calls = @ + 1, !.snap = SetupEffects(setup),
                               !.bootPid = NoPid, !.bootKilled = FALSE, !.stopFailed = FALSE,
                               !.tryOutcome = "none", !.result = NoSetupResult,
                               !.err = "NONE"])

\* `emulator -list-avds` returns or fails: an existing device ends the call at
\* once; otherwise the setup begins
SetupListReturns ==
    /\ setup.at = "list"
    /\ \E listOk \in BOOLEAN :
          LET w == [setup EXCEPT !.listOk = listOk] IN
          SetupStep(IF AvdPresent(listOk, setup.avd)
                      THEN [w EXCEPT !.at = "returned", !.result.returned = TRUE]
                      ELSE SystemImageHead(w))

\* `sdkmanager --licenses` returns or fails (ignored)
SetupLicensesReturn ==
    /\ setup.at = "licenses"
    /\ SetupStep([setup EXCEPT !.at = "download"])

\* the image download returns: installed, or finished without the image, or failed
SetupDownloadReturns ==
    /\ setup.at = "download"
    /\ \E installed \in BOOLEAN :
          LET w == [setup EXCEPT !.downloads = @ + 1, !.image = installed] IN
          SetupStep(IF installed THEN CreateAvdHead(w)
                    ELSE SetupThrown(w, "SYSTEM_IMAGE_DOWNLOAD_FAILED"))

\* `avdmanager create avd` returns or fails
SetupCreateReturns ==
    /\ setup.at = "create"
    /\ \E ok \in BOOLEAN :
          LET w == [setup EXCEPT !.creates = @ + 1] IN
          SetupStep(IF ok THEN [w EXCEPT !.at = "create_verify", !.avd = TRUE]
                    ELSE SetupThrown(w, "AVD_CREATE_FAILED"))

\* the listing that verifies the creation returns or fails
SetupVerifyReturns ==
    /\ setup.at = "create_verify"
    /\ \E listOk \in BOOLEAN :
          SetupStep(IF AvdPresent(listOk, setup.avd) THEN RootAvdHead(setup)
                    ELSE SetupThrown(setup, "AVD_CREATE_FAILED"))

\* supervisor.spawn of the bootstrap emulator returns a pid, or throws
SetupSpawnReturns ==
    /\ setup.at = "spawn"
    /\ \E ok \in BOOLEAN :
          SetupStep(IF ok THEN [setup EXCEPT !.at = "boot_wait", !.spawns = @ + 1,
                                             !.bootPid = setup.spawns + 1]
                    ELSE SetupThrown(setup, "ROOTAVD_FAILED"))

\* waitForEmulatorBoot returns or throws EMULATOR_BOOT_TIMEOUT
SetupBootWaitReturns ==
    /\ setup.at = "boot_wait"
    /\ \E booted \in BOOLEAN :
          SetupStep(IF booted THEN [setup EXCEPT !.at = "script"]
                    ELSE TryBlockEnds(setup, "timeout"))

\* the rootAVD script returns or fails
SetupScriptReturns ==
    /\ setup.at = "script"
    /\ \E ok \in BOOLEAN :
          SetupStep(IF ok THEN TryBlockEnds([setup EXCEPT !.elevations = @ + 1], "ok")
                    ELSE TryBlockEnds(setup, "script_failed"))

\* stopEmulatorForRooting: `adb emu kill` returns (a delay follows) or fails (ignored)
SetupStopAdbReturns ==
    /\ setup.at = "stop_adb"
    /\ \E ok \in BOOLEAN :
          SetupStep(IF ok THEN [setup EXCEPT !.at = "stop_delay"]
                    ELSE [setup EXCEPT !.at = "stop_kill", !.stopFailed = TRUE])

\* the delay after `adb emu kill` is over; supervisor.kill is called
SetupStopDelayReturns ==
    /\ setup.at = "stop_delay"
    /\ SetupStep([setup EXCEPT !.at = "stop_kill"])

\* supervisor.kill(pid) returns or throws (ignored); rootAvd ends
SetupStopKillReturns ==
    /\ setup.at = "stop_kill"
    /\ \E ok \in BOOLEAN :
          SetupStep(RootAvdEnds([setup EXCEPT !.kills = @ + 1, !.bootKilled = TRUE,
                                              !.stopFailed = @ \/ ~ok]))

----------------------------------------------------------------------------
(* WorkspaceManager.updateMeta called on its own, on any record and any
   partial, with file operations that may fail *)

\* records found on disk before the call
UMExisting ==
    [state : {"CREATE_WORKSPACE", "READY"}, mitmPort : {0, DefaultMitmPort},
     emulatorPort : {0, DefaultEmulatorPort}, adbPort : {0}]

\* partial records passed to updateMeta: a state alone, ports alone, a port and
\* a field the record does not have yet, all fields
UMPartials ==
    {[state |-> "ERROR"],
     [mitmPort |-> DefaultMitmPort + 1, emulatorPort |-> DefaultEmulatorPort + 2],
     [adbPort |-> AdbPortOf(DefaultEmulatorPort), avdName |-> "SniaffPhone"],
     [state |-> "READY", mitmPort |-> DefaultMitmPort,
      emulatorPort |-> DefaultEmulatorPort, adbPort |-> AdbPortOf(DefaultEmulatorPort)]}

UMIdle == [at |-> "off", disk |-> NoMeta, before |-> NoMeta, readable |-> FALSE,
           partial |-> NoMeta, readOk |-> FALSE, mergedOk |-> FALSE]

UMStep(r) ==
    /\ um' = r
    /\ UNCHANGED <<staticVars, faults, avdExists, callVars, fsVars, procVars, histVars,
                   stopVars, proxyCleared, pf, wb, setup, moreUnits>>

\* readMeta returns the record, or fails (always, when the file is unreadable)
UMReadReturns ==
    /\ um.at = "read"
    /\ \E ok \in BOOLEAN :
          /\ ok => um.readable
          /\ UMStep([um EXCEPT !.readOk = ok,
                               !.at = IF ok THEN "write_merged" ELSE "write_partial"])

\* writeMeta of the merged record returns, or fails and the catch block runs
UMWriteMergedReturns ==
    /\ um.at = "write_merged"
    /\ \E ok \in BOOLEAN :
          UMStep(IF ok THEN [um EXCEPT !.at = "returned", !.mergedOk = TRUE,
                                       !.disk = UpdateMeta(um.disk, um.partial, TRUE)]
                 ELSE [um EXCEPT !.at = "write_partial"])

\* the catch block's writeMeta of the partial record returns, or fails and
\* updateMeta throws
UMWritePartialReturns ==
    /\ um.at = "write_partial"
    /\ \E ok \in BOOLEAN :
          UMStep(IF ok THEN [um EXCEPT !.at = "returned", !.readable = TRUE,
                                       !.disk = UpdateMeta(um.disk, um.partial, FALSE)]
                 ELSE [um EXCEPT !.at = "thrown"])

(* MitmAdapter.start called on its own, on any request and on sets of occupied
   ports that make every branch of the port selection happen *)

\* requested proxy ports: absent (the default is used), one inside the scanned
\* range, one outside it
MSRequests == {0, DefaultMitmPort + 2, DefaultMitmPort + MitmScanSpan + 20}

\* options.port || config.defaultMitmPort
MSWanted(req) == IF req # 0 THEN req ELSE DefaultMitmPort

\* the candidates of the retry loop
MSCandidates(req) == MSWanted(req)..(MSWanted(req) + PortRetryAttempts - 1)

\* the range handed to findAvailable
MSRange == DefaultMitmPort..(DefaultMitmPort + MitmScanSpan)

\* occupied parts of the scanned range: nothing, its first ports, all but its
\* last port, all of it
MSRangeBusy == {{}, DefaultMitmPort..(DefaultMitmPort + 1),
                DefaultMitmPort..(DefaultMitmPort + MitmScanSpan - 1), MSRange}

MSIdle == [at |-> "off", req |-> 0, occ |-> {}, port |-> NoPort, spawned |-> FALSE,
           arg |-> NoPort, res |-> [pid |-> NoPid, port |-> NoPort], err |-> "NONE"]

MSStep(r) ==
    /\ ms' = r
    /\ UNCHANGED <<staticVars, faults, avdExists, callVars, fsVars, procVars, histVars,
                   stopVars, proxyCleared, pf, wb, setup, um, sd, sc>>

\* the port selection ends: a port was found, or MITM_PORT_UNAVAILABLE is thrown
MSSelectReturns ==
    /\ ms.at = "select"
    /\ LET port == MitmSelectPort(ms.req, ms.occ) IN
       MSStep(IF port = NoPort
                THEN [ms EXCEPT !.at = "thrown", !.err = "MITM_PORT_UNAVAILABLE"]
                ELSE [ms EXCEPT !.at = "spawn", !.port = port])

\* supervisor.spawn returns the process started with --listen-port <port>, or
\* throws (ENOENT: MITMDUMP_NOT_FOUND, anything else: MITM_START_FAILED)
MSSpawnReturns ==
    /\ ms.at = "spawn"
    /\ \/ MSStep([ms EXCEPT !.at = "settle", !.spawned = TRUE, !.arg = ms.port])
       \/ \E e \in MitmSpawnErrors : MSStep([ms EXCEPT !.at = "thrown", !.err = e])

\* after the settle delay: isRunning decides between the result and
\* MITM_START_FAILED
MSSettleReturns ==
    /\ ms.at = "settle"
    /\ \E running \in BOOLEAN :
          MSStep(IF running
                   THEN [ms EXCEPT !.at = "returned", !.res = [pid |-> 1, port |-> ms.port]]
                   ELSE [ms EXCEPT !.at = "thrown", !.err = "MITM_START_FAILED"])

(* main: the handlers of the termination events and the teardown they run,
   against a session manager whose stopSession returns or throws *)

SDRuns == 1..MaxEvents

\* the events main registers a handler for: index.ts and part_003 register
\* cleanup for two signals; part_002 registers shutdown, which has the
\* isShuttingDown guard, for three signals and two stdin events
SDSignals(guarded) ==
    IF guarded THEN {"SIGINT", "SIGTERM", "SIGHUP", "stdin-close", "stdin-end"}
    ELSE {"SIGTERM", "SIGINT"}

RECURSIVE SnapshotOf(_)
\* getAllSessions(): the sessions of the registry, in insertion order
SnapshotOf(reg) ==
    IF reg = {} THEN <<>>
    ELSE LET first == CHOOSE s \in reg : \A u \in reg : s <= u
         IN  <<first>> \o SnapshotOf(reg \ {first})

NoRun == [at |-> "off", signal |-> "none", snap |-> <<>>, idx |-> 0, found |-> FALSE]

SDIdle == [guarded |-> FALSE, isShuttingDown |-> FALSE, exited |-> FALSE, reg |-> {},
           started |-> FALSE, first |-> {}, events |-> 0,
           runs |-> [r \in SDRuns |-> NoRun],
           invoked |-> [s \in SessionIds |-> 0], completed |-> {}, failed |-> {}]

SDStep(d) ==
    /\ sd' = d
    /\ UNCHANGED <<staticVars, faults, avdExists, callVars, fsVars, procVars, histVars,
                   stopVars, proxyCleared, pf, wb, setup, um, ms, sc>>

\* mutant of AttemptCaught: a stopSession that throws ends the teardown
AttemptCaught_OnlySuccess(ok) == ok
\* the try/catch around each stopSession of the loop: the loop goes on whether
\* the call returned or threw
AttemptCaught(ok) == TRUE

\* part_002 wraps server.close() in try/catch; index.ts and part_003 do not
CloseCaught(guarded) == guarded

\* the teardown run r reaches position i of its snapshot: it calls stopSession
\* for that session (which finds it in the registry or not) and awaits it, or,
\* past the end of the snapshot, awaits server.close()
SDAdvance(d, r, i) ==
    IF i > Len(d.runs[r].snap)
      THEN [d EXCEPT !.runs[r].at = "close", !.runs[r].idx = i]
      ELSE LET id == d.runs[r].snap[i] IN
           [d EXCEPT !.runs[r].at = "stop", !.runs[r].idx = i,
                     !.runs[r].found = id \in d.reg, !.invoked[id] = @ + 1]

\* a termination event is delivered: its handler returns at once when the guard
\* is set, else it sets the guard (where there is one), takes the snapshot of
\* the registry and runs the teardown up to its first await
SDEvent ==
    /\ ~sd.exited
    /\ sd.events < MaxEvents
    /\ \E signal \in SDSignals(sd.guarded) :
          LET r == sd.events + 1
              d == [sd EXCEPT !.events = r]
          IN  IF sd.guarded /\ sd.isShuttingDown
                THEN SDStep(d)
                ELSE SDStep(SDAdvance([d EXCEPT !.isShuttingDown = sd.guarded,
                                                !.started = TRUE,
                                                !.first = IF sd.started THEN @ ELSE sd.reg,
                                                !.runs[r].signal = signal,
                                                !.runs[r].snap = SnapshotOf(sd.reg)], r, 1))

\* the stopSession awaited by run r returns (the session leaves the registry)
\* or throws (SESSION_NOT_FOUND when it was not found, any teardown error
\* otherwise: the session stays registered); the loop goes on
SDStopReturns(r) ==
    /\ ~sd.exited
    /\ sd.runs[r].at = "stop"
    /\ \E ok \in BOOLEAN :
          /\ ok => sd.runs[r].found
          /\ LET id == sd.runs[r].snap[sd.runs[r].idx]
                 d  == [sd EXCEPT !.reg = IF ok THEN @ \ {id} ELSE @,
                                  !.completed = @ \cup {id},
                                  !.failed = IF ok THEN @ ELSE @ \cup {id}]
             IN  IF AttemptCaught(ok)
                   THEN SDStep(SDAdvance(d, r, sd.runs[r].idx + 1))
                   ELSE SDStep([d EXCEPT !.runs[r].at = "rejected"])

\* server.close() returns or throws: process.exit(0) follows, except where the
\* rejection is not caught; what an unhandled rejection does to the process
\* depends on the runtime
SDCloseReturns(r) ==
    /\ ~sd.exited
    /\ sd.runs[r].at = "close"
    /\ \E ok \in BOOLEAN :
          IF ok \/ CloseCaught(sd.guarded)
            THEN SDStep([sd EXCEPT !.runs[r].at = "exit", !.exited = TRUE])
            ELSE \E dies \in BOOLEAN :
                    SDStep([sd EXCEPT !.runs[r].at = "rejected", !.exited = dies])

(* StateClient.updateAndroid called on its own, on a state file shared with
   other components that write it whenever they like *)

\* the state file does not exist / holds something JSON.parse rejects
SCMissing == [kind |-> "missing"]
SCCorrupt == [kind |-> "corrupt"]

\* no android field yet
NoAndroid == [f \in {} |-> 0]

\* contents of a readable state file
SCStates ==
    [kind : {"state"}, status : {"active", "stopping"}, mitm : {"none", "running"},
     android : {NoAndroid, [status |-> "pending"],
                [status |-> "starting", emulatorPort |-> DefaultEmulatorPort]}]

\* the updates passed to updateAndroid
SCUpdates ==
    {[status |-> "ready"],
     [status |-> "ready", emulatorPort |-> DefaultEmulatorPort + 2, pid |-> 1],
     [status |-> "error", error |-> "boot"]}

\* updateAndroid returned null
SCNull == [kind |-> "null"]

SCIdle == [at |-> "off", disk |-> SCMissing, prior |-> SCMissing, current |-> SCMissing,
           android |-> NoAndroid, res |-> SCNull, wrote |-> FALSE, others |-> 0]

SCStep(r) ==
    /\ sc' = r
    /\ UNCHANGED <<staticVars, faults, avdExists, callVars, fsVars, procVars, histVars,
                   stopVars, proxyCleared, pf, wb, setup, um, ms, sd>>

\* { ...current, android: { ...current.android, ...android } }
UpdatedState(current, android) ==
    [current EXCEPT !.android = MergeMeta(current.android, android)]

\* readFile and JSON.parse give the current state, or throw: the catch block
\* returns null
SCReadReturns ==
    /\ sc.at = "read"
    /\ \E ok \in BOOLEAN :
          /\ ok => sc.disk.kind = "state"
          /\ SCStep(IF ok THEN [sc EXCEPT !.at = "write", !.current = sc.disk]
                          ELSE [sc EXCEPT !.at = "returned", !.res = SCNull])

\* writeFile stores the updated state and it is returned, or throws: the catch
\* block returns null
SCWriteReturns ==
    /\ sc.at = "write"
    /\ \E ok \in BOOLEAN :
          SCStep(IF ok THEN [sc EXCEPT !.at = "returned", !.wrote = TRUE, !.prior = sc.disk,
                                       !.disk = UpdatedState(sc.current, sc.android),
                                       !.res = UpdatedState(sc.current, sc.android)]
                       ELSE [sc EXCEPT !.at = "returned", !.res = SCNull])

\* another component (sniaff-core-mcp, sniaff-mitmdump-mcp) rewrites the file
\* with its own field changed
SCOtherWrites ==
    /\ sc.at \in {"read", "write"}
    /\ sc.disk.kind = "state"
    /\ sc.others = 0
    /\ \/ SCStep([sc EXCEPT !.others = 1, !.disk.status = "stopping"])
       \/ SCStep([sc EXCEPT !.others = 1, !.disk.mitm = "running"])

NoSel == [req |-> 0, occ |-> {}, port |-> NoPort]

\* the adapters' standalone calls are not in use
MoreUnitsIdle == ms = MSIdle /\ sd = SDIdle /\ sc = SCIdle
UnitsIdle == wb = WBIdle /\ setup = SetupIdle /\ um = UMIdle /\ MoreUnitsIdle

InitCalls ==
    /\ pc = [s \in SessionIds |-> "idle"]
    /\ pass = [s \in SessionIds |-> 1]
    /\ input = [s \in SessionIds |-> [emulatorPort |-> 0, mitmPort |-> 0]]
    /\ sess = [s \in SessionIds |-> NullSession]
    /\ registry = {}
    /\ sel = [s \in SessionIds |-> NoPort]
    /\ pend = [s \in SessionIds |-> NoPid]
    /\ trigger = [s \in SessionIds |-> "NONE"]
    /\ cleanupErr = [s \in SessionIds |-> "NONE"]
    /\ startErr = [s \in SessionIds |-> NoError]
    /\ result = [s \in SessionIds |-> NoResult]
    /\ events = [s \in SessionIds |-> <<>>]
    /\ stateLog = [s \in SessionIds |-> <<>>]
    /\ ws = [s \in SessionIds |-> FALSE]
    /\ meta = [s \in SessionIds |-> NoMeta]
    /\ cleanupCalls = {}
    /\ proxyCleared = {}
    /\ procs = <<>>
    /\ killInvoked = {}
    /\ killReturned = {}
    /\ emuSel = [s \in SessionIds |-> NoSel]
    /\ rootChecks = [s \in SessionIds |-> <<>>]
    /\ recreations = [s \in SessionIds |-> 0]
    /\ proxyOutcome = [s \in SessionIds |-> "none"]
    /\ stopPc = [k \in StopCalls |-> "idle"]
    /\ stopArg = [k \in StopCalls |-> UnknownId]
    /\ stopTarget = [k \in StopCalls |-> 0]
    /\ stopErr = [k \in StopCalls |-> "NONE"]
    /\ stopHist = [k \in StopCalls |-> NoStopHist]

\* listeners outside the program: none, one on the default console port, one
\* on the last console port
ExtOccupiedChoices == {{}, {DefaultEmulatorPort}, {EmulatorPortEnd}}

\* Spec: one startSession call, with stopSession calls running beside it, in an
\* environment that injects up to MaxFaults faults
SoloIds == {1}

Init ==
    /\ variant \in {"proxy", "elevation"}
    /\ extOccupied \in ExtOccupiedChoices
    /\ faults = 0
    /\ avdExists \in (IF variant = "elevation" THEN BOOLEAN ELSE {TRUE})
    /\ InitCalls
    /\ pf = PFIdle
    /\ UnitsIdle

\* the steps of startSession and rollback after the call itself
Lifecycle ==
    \/ \E s \in SessionIds : SetupAvd(s)
    \/ \E s \in SessionIds : CreateWorkspace(s)
    \/ \E s \in SessionIds : MitmLaunch(s)
    \/ \E s \in SessionIds : MitmSettle(s)
    \/ \E s \in SessionIds : EmuLaunch(s)
    \/ \E s \in SessionIds : EmuSettle(s)
    \/ \E s \in SessionIds : WaitDevice(s)
    \/ \E s \in SessionIds : WaitBoot(s)
    \/ \E s \in SessionIds : SetProxy(s)
    \/ \E s \in SessionIds : CheckRoot(s)
    \/ \E s \in SessionIds : RetryStop(s)
    \/ \E s \in SessionIds : Recreate(s)
    \/ \E s \in SessionIds : FinalMeta(s)
    \/ \E s \in SessionIds : RollbackStopEmulator(s)
    \/ \E s \in SessionIds : RollbackStopMitm(s)
    \/ \E s \in SessionIds : RollbackFinish(s)
    \/ \E p \in Pids : ProcBind(p)

Next ==
    \/ \E s \in SoloIds : \E in \in StartInputs : StartSession(s, in)
    \/ Lifecycle
    \/ \E k \in SoloStops : \E id \in SoloIds \cup {UnknownId} : StopSession(k, id)
    \/ \E k \in SoloStops : StopClearProxy(k)
    \/ \E k \in SoloStops : StopEmulator(k)
    \/ \E k \in SoloStops : StopMitm(k)
    \/ \E k \in SoloStops : StopCleanup(k)
    \/ \E p \in Pids : ProcExit(p)

Spec == Init /\ [][Next]_vars

\* SpecRace: MaxSessions startSession calls in flight together, no listener
\* outside the program, no injected fault, no stopSession
InitRace ==
    /\ variant \in {"proxy", "elevation"}
    /\ extOccupied = {}
    /\ faults = MaxFaults
    /\ avdExists = TRUE
    /\ InitCalls
    /\ pf = PFIdle
    /\ UnitsIdle

NextRace ==
    \/ \E s \in SessionIds : \E in \in StartInputs : StartSession(s, in)
    \/ Lifecycle

SpecRace == InitRace /\ [][NextRace]_vars

\* SpecPF: findAvailable / findAvailableEven called on every range and every set
\* of occupied ports of the window
InitPF ==
    /\ variant = "proxy"
    /\ extOccupied = {}
    /\ faults = 0
    /\ avdExists = TRUE
    /\ InitCalls
    /\ pf \in [at : {"call"}, fn : {"findAvailable", "findAvailableEven"},
               start : PFPorts, end : PFPorts, occ : SUBSET PFPorts, res : {NoPort}]
    /\ UnitsIdle

NextPF == PFFindAvailable \/ PFFindAvailableEven

SpecPF == InitPF /\ [][NextPF]_vars

\* SpecWait: one call of waitForBoot or of the bootstrap boot wait. Timers fire
\* and the adapter's own code runs (weak fairness); nothing makes an adb
\* invocation return
InitWait ==
    /\ variant = "elevation"
    /\ extOccupied = {}
    /\ faults = 0
    /\ avdExists = TRUE
    /\ InitCalls
    /\ pf = PFIdle
    /\ setup = SetupIdle
    /\ um = UMIdle
    /\ MoreUnitsIdle
    /\ wb \in [fn : {"waitForBoot", "waitForEmulatorBoot"}, at : {"call"}, now : {0},
               start : {0}, dstart : {0}, timeout : 1..WaitTimeoutMax,
               id : {DeviceIdOf(AdbPortOf(DefaultEmulatorPort))},
               list : SUBSET WBDevices, prop : BootProps,
               sawDevice : {FALSE}, sawBoot : {FALSE}, last : {"none"}, err : {"NONE"}]

NextWait ==
    \/ WBCall
    \/ WBDevicesReturns
    \/ WBGetpropReturns
    \/ WBDelayReturns
    \/ WBDeviceChanges

\* SpecMeta: one updateMeta call on any record, readable or not, and any partial
InitMeta ==
    /\ variant = "proxy"
    /\ extOccupied = {}
    /\ faults = 0
    /\ avdExists = TRUE
    /\ InitCalls
    /\ pf = PFIdle
    /\ wb = WBIdle
    /\ setup = SetupIdle
    /\ MoreUnitsIdle
    /\ \E existing \in UMExisting : \E partial \in UMPartials : \E readable \in BOOLEAN :
          um = [UMIdle EXCEPT !.at = "read", !.disk = existing, !.before = existing,
                              !.readable = readable, !.partial = partial]

NextMeta == UMReadReturns \/ UMWriteMergedReturns \/ UMWritePartialReturns

SpecMeta == InitMeta /\ [][NextMeta]_vars

\* SpecSetup: ensureSniaffAvd called MaxEnsures times in a row, on any SDK state
InitSetup ==
    /\ variant = "elevation"
    /\ extOccupied = {}
    /\ faults = 0
    /\ avdExists = TRUE
    /\ InitCalls
    /\ pf = PFIdle
    /\ wb = WBIdle
    /\ um = UMIdle
    /\ MoreUnitsIdle
    /\ \E avd, image, sdkmanager, avdmanager, rootScript \in BOOLEAN :
          setup = [SetupIdle EXCEPT !.at = "call", !.avd = avd, !.image = image,
                                    !.sdkmanager = sdkmanager, !.avdmanager = avdmanager,
                                    !.rootScript = rootScript]

NextSetup ==
    \/ SetupCall
    \/ SetupListReturns
    \/ SetupLicensesReturn
    \/ SetupDownloadReturns
    \/ SetupCreateReturns
    \/ SetupVerifyReturns
    \/ SetupSpawnReturns
    \/ SetupBootWaitReturns
    \/ SetupScriptReturns
    \/ SetupStopAdbReturns
    \/ SetupStopDelayReturns
    \/ SetupStopKillReturns

SpecSetup == InitSetup /\ [][NextSetup]_vars

SpecWait == InitWait /\ [][NextWait]_vars /\ WF_vars(WBCall) /\ WF_vars(WBDelayReturns)

\* SpecMitm: MitmAdapter.start called once, on any request and any of the
\* occupied-port sets
InitMitm ==
    /\ variant = "proxy"
    /\ extOccupied = {}
    /\ faults = 0
    /\ avdExists = TRUE
    /\ InitCalls
    /\ pf = PFIdle
    /\ wb = WBIdle
    /\ setup = SetupIdle
    /\ um = UMIdle
    /\ sd = SDIdle
    /\ sc = SCIdle
    /\ \E req \in MSRequests : \E busy \in SUBSET MSCandidates(req) : \E rb \in MSRangeBusy :
          ms = [MSIdle EXCEPT !.at = "select", !.req = req, !.occ = busy \cup rb]

NextMitm == MSSelectReturns \/ MSSpawnReturns \/ MSSettleReturns

SpecMitm == InitMitm /\ [][NextMitm]_vars

\* SpecShutdown: up to MaxEvents termination events delivered to a process
\* whose registry holds any set of sessions, for each of the two forms of main
InitShutdown ==
    /\ variant = "elevation"
    /\ extOccupied = {}
    /\ faults = 0
    /\ avdExists = TRUE
    /\ InitCalls
    /\ pf = PFIdle
    /\ wb = WBIdle
    /\ setup = SetupIdle
    /\ um = UMIdle
    /\ ms = MSIdle
    /\ sc = SCIdle
    /\ \E guarded \in BOOLEAN : \E reg \in SUBSET SessionIds :
          sd = [SDIdle EXCEPT !.guarded = guarded, !.reg = reg]

NextShutdown ==
    \/ SDEvent
    \/ \E r \in SDRuns : SDStopReturns(r)
    \/ \E r \in SDRuns : SDCloseReturns(r)

SpecShutdown == InitShutdown /\ [][NextShutdown]_vars

\* SpecState: one updateAndroid call on any state file, with another component
\* writing the file once at any moment
InitState ==
    /\ variant = "elevation"
    /\ extOccupied = {}
    /\ faults = 0
    /\ avdExists = TRUE
    /\ InitCalls
    /\ pf = PFIdle
    /\ wb = WBIdle
    /\ setup = SetupIdle
    /\ um = UMIdle
    /\ ms = MSIdle
    /\ sd = SDIdle
    /\ \E disk \in SCStates \cup {SCMissing, SCCorrupt} : \E android \in SCUpdates :
          sc = [SCIdle EXCEPT !.at = "read", !.disk = disk, !.prior = disk,
                              !.android = android]

NextState == SCReadReturns \/ SCWriteReturns \/ SCOtherWrites

SpecState == InitState /\ [][NextState]_vars

\* SpecSeq: startSession calls made one after the other (each after the previous
\* one returned or threw), stopSession calls running beside them, no listener
\* outside the program, no injected fault
NextSeq ==
    \/ \E s \in SessionIds : \E in \in StartInputs :
          /\ \A u \in SessionIds : u < s => pc[u] \in {"done", "failed"}
          /\ StartSession(s, in)
    \/ Lifecycle
    \/ \E k \in SoloStops : \E id \in SessionIds \cup {UnknownId} : StopSession(k, id)
    \/ \E k \in SoloStops : StopClearProxy(k)
    \/ \E k \in SoloStops : StopEmulator(k)
    \/ \E k \in SoloStops : StopMitm(k)
    \/ \E k \in SoloStops : StopCleanup(k)

SpecSeq == InitRace /\ [][NextSeq]_vars

\* SpecOverlap: one startSession call and, once it has returned, stopSession
\* calls on its session that may overlap one another; no listener outside the
\* program, no injected fault
NextOverlap ==
    \/ \E s \in SoloIds : \E in \in StartInputs : StartSession(s, in)
    \/ Lifecycle
    \/ \E k \in StopCalls : \E id \in SoloIds : pc[id] = "done" /\ StopSession(k, id)
    \/ \E k \in StopCalls : StopClearProxy(k)
    \/ \E k \in StopCalls : StopEmulator(k)
    \/ \E k \in StopCalls : StopMitm(k)
    \/ \E k \in StopCalls : StopCleanup(k)

SpecOverlap == InitRace /\ [][NextOverlap]_vars

----------------------------------------------------------------------------
(* Properties *)

\* the startSession call of s has thrown to its caller
Failed(s) == pc[s] = "failed"

\* C1: whenever startSession has failed, at whatever phase, the session is not
\* in the registry, and the error thrown to the caller is the error that was
\* caught (as it is if typed, wrapped as INTERNAL_ERROR around it if not), never
\* an error raised by rollback's cleanup.
C1_FailedStartUnregisteredOriginalError ==
    \A s \in SessionIds :
        Failed(s) =>
            /\ s \notin registry
            /\ trigger[s] # "NONE"
            /\ startErr[s].cause = trigger[s]
            /\ startErr[s].kind =
                  IF trigger[s] \in RawErrors THEN "INTERNAL_ERROR" ELSE trigger[s]

\* a registered session failed and a cleanup step of its rollback failed too
C1_Witness ==
    \E s \in SessionIds :
        Failed(s) /\ sess[s].state = "ERROR" /\ cleanupErr[s] # "NONE"

\* the emulator process of s exited before the liveness check, after the proxy
\* of s had been started and recorded
EmulatorExitedAfterProxy(s) ==
    /\ trigger[s] = "EMULATOR_START_FAILED"
    /\ sess[s].mitmPid # NoPid
    /\ sess[s].emulatorPid = NoPid
    /\ \E p \in Pids : /\ procs[p].kind = "emulator"
                       /\ procs[p].owner = s
                       /\ procs[p].status = "exited"

\* C2 as stated: when startSession completes after the emulator process exited
\* with the proxy already started, the session is not registered, kill was
\* invoked on the recorded proxy pid, and the persisted metadata shows ERROR.
C2_Original ==
    [][\A s \in SessionIds :
          (~Failed(s) /\ Failed(s)' /\ EmulatorExitedAfterProxy(s)') =>
              /\ s \notin registry'
              /\ sess'[s].mitmPid \in killInvoked'
              /\ meta'[s].state = "ERROR"]_vars

\* C2 amended: as C2, but the persisted metadata shows ERROR only if rollback's
\* metadata update succeeded (its failure is swallowed).
C2_EmulatorExitRollsBack ==
    [][\A s \in SessionIds :
          (~Failed(s) /\ Failed(s)' /\ EmulatorExitedAfterProxy(s)') =>
              /\ s \notin registry'
              /\ sess'[s].mitmPid \in killInvoked'
              /\ cleanupErr'[s] # "RAW_FS_ERROR" => meta'[s].state = "ERROR"]_vars

\* startSession failed because the emulator exited after the proxy had started,
\* and the metadata on disk shows ERROR
C2_Witness ==
    \E s \in SessionIds :
        /\ Failed(s) /\ EmulatorExitedAfterProxy(s)
        /\ sess[s].mitmPid \in killInvoked
        /\ meta[s].state = "ERROR"

\* C3: a stopSession call on an id that is not in the registry fails with
\* SESSION_NOT_FOUND in the step it is made and has no side effect: no
\* clearProxy, no kill, no workspace cleanup, registry, sessions, processes and
\* files unchanged.
C3_UnknownStopHasNoEffect ==
    [][\A k \in StopCalls :
          (stopPc[k] = "idle" /\ stopPc'[k] # "idle" /\ stopArg'[k] \notin registry) =>
              /\ stopPc'[k] = "failed"
              /\ stopErr'[k] = "SESSION_NOT_FOUND"
              /\ UNCHANGED <<registry, sess, proxyCleared, killInvoked, procs,
                             cleanupCalls, ws, meta>>]_vars

\* a stopSession call on an id not in the registry has failed, while the program
\* owns a workspace and a live process that a teardown could have touched
C3_Witness ==
    \E k \in StopCalls :
        /\ stopErr[k] = "SESSION_NOT_FOUND"
        /\ stopArg[k] \notin registry
        /\ \E s \in SessionIds : ws[s]
        /\ \E p \in Pids : Running(p)

\* C4: a stopSession(id) call made after startSession returned id successfully,
\* once it has completed, leaves the workspace of id removed and id absent from
\* the registry (getSession / getAllSessions).
C4_StopRemovesWorkspaceAndSession ==
    \A k \in StopCalls :
        (stopPc[k] = "done" /\ stopHist[k].afterSuccess) =>
            /\ ~ws[stopArg[k]]
            /\ meta[stopArg[k]] = NoMeta
            /\ stopArg[k] \notin registry

\* a stopSession call on a successfully started session has completed
C4_Witness ==
    \E k \in StopCalls :
        /\ stopPc[k] = "done" /\ stopHist[k].afterSuccess
        /\ result[stopArg[k]].state = "READY"

\* C5 as stated: a stopSession call on a known id whose emulator stop failed
\* has nevertheless stopped the proxy process, deleted the workspace and
\* removed the session from the registry.
C5_StopBestEffort ==
    \A k \in StopCalls :
        (stopPc[k] \in {"done", "failed"} /\ stopHist[k].found
            /\ stopHist[k].failedAt = "emu") =>
            /\ sess[stopArg[k]].mitmPid # NoPid => sess[stopArg[k]].mitmPid \in killInvoked
            /\ ~ws[stopArg[k]]
            /\ stopArg[k] \notin registry

\* C6 as stated: no two sessions in the registry hold the same assigned
\* console port, control port or proxy port.
C6_DistinctPorts ==
    \A s, t \in registry :
        s # t =>
            /\ sess[s].emulatorPort # 0 => sess[s].emulatorPort # sess[t].emulatorPort
            /\ sess[s].adbPort # 0 => sess[s].adbPort # sess[t].adbPort
            /\ sess[s].mitmPort # 0 => sess[s].mitmPort # sess[t].mitmPort

\* the startSession call of s has returned or thrown
Completed(s) == pc[s] \in {"done", "failed"}

\* C7 as stated: at most one forced recreation per startSession; a first check
\* that passes means no recreation; a check that fails on both attempts means
\* failure with ROOT_CHECK_FAILED after one recreation; a check that fails once
\* and passes after the recreation means one recreation and a successful call.
C7_Original ==
    \A s \in SessionIds :
        /\ recreations[s] <= 1
        /\ Len(rootChecks[s]) <= 2
        /\ (rootChecks[s] # <<>> /\ rootChecks[s][1]) => recreations[s] = 0
        /\ rootChecks[s] = <<FALSE, FALSE>> =>
              /\ recreations[s] = 1
              /\ trigger[s] = "ROOT_CHECK_FAILED"
              /\ Failed(s) => startErr[s].kind = "ROOT_CHECK_FAILED"
        /\ (rootChecks[s] = <<FALSE, TRUE>> /\ Completed(s)) =>
              /\ recreations[s] = 1
              /\ pc[s] = "done"

\* C7 amended: as C7, except that after a check that failed once and passed
\* after the recreation the call succeeds unless persisting the final metadata
\* then fails (the call then fails with that error wrapped as INTERNAL_ERROR).
C7_RootRetryBoundedToOne ==
    \A s \in SessionIds :
        /\ recreations[s] <= 1
        /\ Len(rootChecks[s]) <= 2
        /\ (rootChecks[s] # <<>> /\ rootChecks[s][1]) => recreations[s] = 0
        /\ rootChecks[s] = <<FALSE, FALSE>> =>
              /\ recreations[s] = 1
              /\ trigger[s] = "ROOT_CHECK_FAILED"
              /\ Failed(s) => startErr[s].kind = "ROOT_CHECK_FAILED"
        /\ (rootChecks[s] = <<FALSE, TRUE>> /\ Completed(s)) =>
              /\ recreations[s] = 1
              /\ pc[s] = "done" \/ trigger[s] = "RAW_FS_ERROR"

\* the root check failed, the AVD was recreated once, the second check passed
\* and startSession returned READY
C7_Witness ==
    \E s \in SessionIds :
        /\ rootChecks[s] = <<FALSE, TRUE>>
        /\ recreations[s] = 1
        /\ pc[s] = "done" /\ result[s].state = "READY"

\* the even ports from the requested console port (default if none, rounded up
\* if odd) to the end of the range that were free when the emulator start of
\* s probed them
FreeEvenAtProbe(s) ==
    LET wanted == IF emuSel[s].req # 0 THEN emuSel[s].req ELSE DefaultEmulatorPort
        first  == IF wanted % 2 = 0 THEN wanted ELSE wanted + 1
    IN  {p \in first..EmulatorPortEnd : p % 2 = 0 /\ p \notin emuSel[s].occ}

\* C8: emulator start selects the lowest even port that is free when probed,
\* from the requested port (rounded up if odd) to 5682, so 5554 when 5554 is
\* requested and free; the control port of a session is its console port + 1;
\* with no free even port in the range the start fails with
\* EMULATOR_START_FAILED.
C8_EmulatorPortSelection ==
    \A s \in SessionIds :
        /\ emuSel[s] # NoSel =>
              /\ FreeEvenAtProbe(s) = {} =>
                    /\ emuSel[s].port = NoPort
                    /\ trigger[s] = "EMULATOR_START_FAILED"
              /\ FreeEvenAtProbe(s) # {} =>
                    /\ emuSel[s].port \in FreeEvenAtProbe(s)
                    /\ \A q \in FreeEvenAtProbe(s) : emuSel[s].port <= q
              /\ pc[s] \in {"wait_device", "done"} =>
                    sess[s].emulatorPort = emuSel[s].port
        /\ sess[s].emulatorPort # NoPort =>
              /\ sess[s].emulatorPort % 2 = 0
              /\ sess[s].adbPort = sess[s].emulatorPort + 1
        /\ result[s].state = "READY" =>
              /\ result[s].emulatorPort = emuSel[s].port
              /\ result[s].adbPort = emuSel[s].port + 1

\* the emulator of s was started with an odd port requested and the session
\* records the next even port and its control port
C8_Witness ==
    \E s \in SessionIds :
        /\ emuSel[s] # NoSel
        /\ emuSel[s].req % 2 = 1
        /\ sess[s].emulatorPort = emuSel[s].req + 1
        /\ sess[s].adbPort = emuSel[s].req + 2

\* the ports of pf.start..pf.end that are not occupied
PFFree == {p \in pf.start..pf.end : p \notin pf.occ}

\* C9: findAvailable(a, b) returns the lowest port of [a, b] that is available,
\* never a port outside [a, b] or an occupied one, and fails (no port) exactly
\* when every port of [a, b] is occupied.
C9_FindAvailableLowest ==
    (pf.at = "returned" /\ pf.fn = "findAvailable") =>
        IF PFFree = {}
        THEN pf.res = NoPort
        ELSE /\ pf.res \in PFFree
             /\ \A q \in PFFree : pf.res <= q

\* findAvailable returned the last port of a range whose other ports, at least
\* one, were all occupied
C9_Witness ==
    /\ pf.at = "returned" /\ pf.fn = "findAvailable"
    /\ pf.start < pf.end
    /\ pf.res = pf.end
    /\ (pf.start)..(pf.end - 1) \subseteq pf.occ

\* the even ports of pf.start..pf.end that are not occupied
PFFreeEven == {p \in PFFree : p % 2 = 0}

\* C10: findAvailableEven(a, b) returns the lowest even port of [a, b] that is
\* available, also when a is odd, never an odd port, and fails (no port) when
\* no even port of [a, b] is available.
C10_FindAvailableEvenLowest ==
    (pf.at = "returned" /\ pf.fn = "findAvailableEven") =>
        IF PFFreeEven = {}
        THEN pf.res = NoPort
        ELSE /\ pf.res \in PFFreeEven
             /\ \A q \in PFFreeEven : pf.res <= q

\* findAvailableEven was called with an odd, free start and returned the even
\* port after it
C10_Witness ==
    /\ pf.at = "returned" /\ pf.fn = "findAvailableEven"
    /\ pf.start % 2 = 1
    /\ pf.start \notin pf.occ
    /\ pf.res = pf.start + 1

\* position of a state in the SessionState enum's phase order
PhaseRank(state) ==
    CASE state = "IDLE"             -> 0
      [] state = "SETUP_AVD"        -> 1
      [] state = "CREATE_WORKSPACE" -> 2
      [] state = "START_MITM"       -> 3
      [] state = "START_EMULATOR"   -> 4
      [] state = "WAIT_BOOT"        -> 5
      [] state = "CONFIGURE_PROXY"  -> 6
      [] state = "READY"            -> 7
      [] OTHER                      -> 8

TerminalStates == {"ERROR", "STOPPED"}

\* C11 as stated: in every step a session's stored state stays, advances in the
\* phase order, or jumps to ERROR/STOPPED; it never returns to an earlier phase,
\* the root-verification retry included.
C11_StateOnlyAdvances ==
    [][\A s \in SessionIds :
          \/ sess'[s].state \in TerminalStates
          \/ PhaseRank(sess'[s].state) >= PhaseRank(sess[s].state)]_vars

\* C12 as stated: a session in the registry shows a process id only once the
\* adapter start that spawned the process for it has returned, and never the
\* pid of a process whose stop call has already returned.
C12_PidsTrackLiveProcesses ==
    \A s \in registry :
        /\ sess[s].emulatorPid # NoPid =>
              /\ sess[s].emulatorPid \in Pids
              /\ procs[sess[s].emulatorPid].owner = s
              /\ procs[sess[s].emulatorPid].kind = "emulator"
              /\ pend[s] # sess[s].emulatorPid
              /\ sess[s].emulatorPid \notin killReturned
        /\ sess[s].mitmPid # NoPid =>
              /\ sess[s].mitmPid \in Pids
              /\ procs[sess[s].mitmPid].owner = s
              /\ procs[sess[s].mitmPid].kind = "mitm"
              /\ pend[s] # sess[s].mitmPid
              /\ sess[s].mitmPid \notin killReturned

\* the session of s was registered and has been removed from the registry
Removed(s) == s \notin registry /\ sess[s].state # "IDLE"

\* this step belongs to the rollback of s's own startSession
RollbackStepOf(s) == pc[s] \in {"rb_emu", "rb_mitm", "rb_meta"} /\ pc'[s] # pc[s]

\* this step belongs to a stopSession call on s
StopStepOn(s) ==
    \E k \in StopCalls : /\ stopArg[k] = s
                         /\ stopPc[k] \notin {"idle", "done", "failed"}
                         /\ stopPc'[k] # stopPc[k]

\* C13: a session id that has been removed from the registry is never in the
\* registry again, and a step removes a session from the registry only if it is
\* a step of a stopSession call on that id or of the rollback of that session's
\* own startSession.
C13_RemovalIrreversible ==
    [][\A s \in SessionIds :
          /\ Removed(s) => s \notin registry'
          /\ (s \in registry /\ s \notin registry') =>
                (RollbackStepOf(s) \/ StopStepOn(s))]_vars

\* one session removed by rollback, another removed by stopSession after its
\* successful start
C13_Witness ==
    \E s, u \in SessionIds :
        /\ Removed(s) /\ pc[s] = "failed"
        /\ Removed(u) /\ pc[u] = "done"
        /\ \E k \in StopCalls : stopArg[k] = u /\ stopPc[k] = "done"

\* no startSession or stopSession call concerning session s is executing
Quiescent(s) ==
    /\ pc[s] \in {"idle", "done", "failed"}
    /\ \A k \in StopCalls : stopArg[k] = s => stopPc[k] \in {"idle", "done", "failed"}

\* C14 as stated: whenever no call concerning its session is executing, a live
\* process that was spawned for the session and on which kill was never
\* invoked is recorded as a pid of that session, and the session is in the
\* registry; also when stopSession ran while startSession was in flight.
C14_NoUntrackedOrphan ==
    \A p \in Pids :
        (Quiescent(procs[p].owner) /\ Running(p) /\ p \notin killInvoked) =>
            /\ procs[p].owner \in registry
            /\ p \in {sess[procs[p].owner].emulatorPid, sess[procs[p].owner].mitmPid}

\* no stopSession call was made on session s
NeverStopped(s) == \A k \in StopCalls : stopArg[k] # s

\* C15 as stated: after setProxy failed the call succeeds: the session is READY
\* and registered, no rollback runs, no process of the session is killed, and
\* the result has proxyConfigured = false and the warning
\* DEVICE_PROXY_CONFIG_FAILED; after setProxy succeeded the result has
\* proxyConfigured = true and no such warning.
C15_Original ==
    \A s \in SessionIds :
        /\ proxyOutcome[s] = "failed" =>
              /\ trigger[s] = "NONE"
              /\ sess[s].state = "READY"
              /\ NeverStopped(s) =>
                    /\ s \in registry
                    /\ {sess[s].emulatorPid, sess[s].mitmPid} \cap killInvoked = {}
              /\ pc[s] = "done" =>
                    /\ result[s].state = "READY"
                    /\ result[s].proxyConfigured = FALSE
                    /\ "DEVICE_PROXY_CONFIG_FAILED" \in result[s].warnings
        /\ (proxyOutcome[s] = "ok" /\ pc[s] = "done") =>
              /\ result[s].proxyConfigured = TRUE
              /\ "DEVICE_PROXY_CONFIG_FAILED" \notin result[s].warnings

\* C15 amended: as C15, except that the call can still fail, and roll back,
\* when persisting the final metadata fails; the failed setProxy itself never
\* makes the call fail.
C15_ProxyFailureIsWarning ==
    \A s \in SessionIds :
        /\ proxyOutcome[s] = "failed" =>
              /\ trigger[s] \in {"NONE", "RAW_FS_ERROR"}
              /\ trigger[s] = "NONE" =>
                    /\ sess[s].state = "READY"
                    /\ NeverStopped(s) =>
                          /\ s \in registry
                          /\ {sess[s].emulatorPid, sess[s].mitmPid} \cap killInvoked = {}
              /\ pc[s] = "done" =>
                    /\ result[s].state = "READY"
                    /\ result[s].proxyConfigured = FALSE
                    /\ "DEVICE_PROXY_CONFIG_FAILED" \in result[s].warnings
        /\ (proxyOutcome[s] = "ok" /\ pc[s] = "done") =>
              /\ result[s].proxyConfigured = TRUE
              /\ "DEVICE_PROXY_CONFIG_FAILED" \notin result[s].warnings

\* setProxy failed and startSession returned READY with the warning, the session
\* registered and its processes alive
C15_Witness ==
    \E s \in SessionIds :
        /\ proxyOutcome[s] = "failed" /\ pc[s] = "done"
        /\ s \in registry /\ sess[s].state = "READY"
        /\ Running(sess[s].emulatorPid) /\ Running(sess[s].mitmPid)
        /\ result[s].warnings = {"DEVICE_PROXY_CONFIG_FAILED"}

\* the startSession call of s has thrown after a rollback of its session
RolledBack(s) == Failed(s) /\ sess[s].state = "ERROR"

\* C16: when startSession has failed and rolled back, whatever cleanup step of
\* the rollback failed, every step of the rollback was still made (kill invoked
\* on every recorded pid; metadata set to ERROR unless that update itself
\* failed), the session is out of the registry, and the error thrown is the
\* original startup error, not the cleanup error.
C16_RollbackSurvivesCleanupFailure ==
    \A s \in SessionIds :
        RolledBack(s) =>
            /\ sess[s].emulatorPid # NoPid => sess[s].emulatorPid \in killInvoked
            /\ sess[s].mitmPid # NoPid => sess[s].mitmPid \in killInvoked
            /\ (cleanupErr[s] # "RAW_FS_ERROR" /\ ws[s]) => meta[s].state = "ERROR"
            /\ s \notin registry
            /\ startErr[s].cause = trigger[s]
            /\ cleanupErr[s] # "NONE" =>
                  /\ startErr[s].cause # cleanupErr[s] \/ trigger[s] = cleanupErr[s]
                  /\ startErr[s].kind \in {trigger[s], "INTERNAL_ERROR"}

\* rollback's emulator stop failed, its proxy stop was still made and returned,
\* the metadata shows ERROR and the call threw the original error
C16_Witness ==
    \E s \in SessionIds :
        /\ RolledBack(s)
        /\ sess[s].emulatorPid \in killInvoked \ killReturned
        /\ sess[s].mitmPid \in killReturned
        /\ meta[s].state = "ERROR"
        /\ startErr[s].kind = trigger[s]

\* C17 as stated: the registry never holds more sessions than the configured
\* session limit; a startSession issued when it already holds that many does
\* not add another.
C17_SessionLimitEnforced == Cardinality(registry) <= ConfiguredMaxSessions

\* the pids a step asked the supervisor to kill
NewlyKilled == killInvoked' \ killInvoked

\* C18: rollback stops processes in reverse order of acquisition: its proxy
\* stop step runs only once a kill was invoked on the session's emulator pid
\* (or none is recorded), its steps kill only the pid recorded on the session
\* for that step, and the registry entry goes only at its last step, after
\* both stop attempts and the metadata update.
C18_RollbackReverseOrder ==
    [][\A s \in SessionIds : RollbackStepOf(s) =>
          /\ pc[s] = "rb_emu" =>
                /\ NewlyKilled \subseteq {sess[s].emulatorPid}
                /\ sess[s].emulatorPid \in killInvoked'
                /\ pc'[s] \in {"rb_mitm", "rb_meta"}
          /\ pc[s] = "rb_mitm" =>
                /\ sess[s].emulatorPid # NoPid => sess[s].emulatorPid \in killInvoked
                /\ NewlyKilled \subseteq {sess[s].mitmPid}
                /\ sess[s].mitmPid \in killInvoked'
                /\ pc'[s] = "rb_meta"
          /\ pc[s] = "rb_meta" =>
                /\ NewlyKilled = {}
                /\ \A pid \in {sess[s].emulatorPid, sess[s].mitmPid} \ {NoPid} :
                      pid \in killInvoked
                /\ pc'[s] = "failed"
          /\ NoPid \notin killInvoked'
          /\ (s \in registry /\ s \notin registry') => pc[s] = "rb_meta"]_vars

\* a rollback that stopped an emulator and a proxy has finished and removed the
\* session, with no stopSession call made
C18_Witness ==
    \E s \in SessionIds :
        /\ pc[s] = "failed" /\ s \notin registry
        /\ sess[s].emulatorPid # NoPid /\ sess[s].mitmPid # NoPid
        /\ {sess[s].emulatorPid, sess[s].mitmPid} \subseteq killInvoked
        /\ \A k \in StopCalls : stopPc[k] = "idle"

\* startSession failed after its workspace was created, and no stopSession
\* call reached the cleanup of that workspace
FailedWithWorkspace(s) ==
    pc[s] = "failed" /\ sess[s].state # "IDLE" /\ s \notin cleanupCalls

\* what a rollback step may do to the stored files: no directory is deleted,
\* cleanup is not invoked, and meta.json of the session is one of `allowed`
RollbackTouches(s, allowed) ==
    /\ ws' = ws
    /\ cleanupCalls' = cleanupCalls
    /\ \A u \in SessionIds \ {s} : meta'[u] = meta[u]
    /\ meta'[s] \in allowed

\* C19 as stated: rollback keeps the workspace, never invokes cleanup, and its
\* only change is the metadata state set to ERROR, every other field unchanged.
C19_Original ==
    /\ [](\A s \in SessionIds : FailedWithWorkspace(s) => ws[s])
    /\ [][\A s \in SessionIds : RollbackStepOf(s) =>
            RollbackTouches(s, {meta[s], [meta[s] EXCEPT !.state = "ERROR"]})]_vars

\* C19: rollback keeps the workspace and never invokes cleanup; it leaves
\* meta.json as it was (update failed), or with only the state set to ERROR, or,
\* when the merge could not be done (the read of the existing file or the
\* write of the merged one failed), holding the ERROR state alone.
C19_RollbackKeepsWorkspace ==
    /\ [](\A s \in SessionIds : FailedWithWorkspace(s) => ws[s])
    /\ [][\A s \in SessionIds : RollbackStepOf(s) =>
            RollbackTouches(s, {meta[s], [meta[s] EXCEPT !.state = "ERROR"],
                                [state |-> "ERROR"]})]_vars

\* a failed startSession left its workspace behind with the state ERROR merged
\* into the metadata written at creation
C19_Witness ==
    \E s \in SessionIds :
        /\ FailedWithWorkspace(s) /\ ws[s]
        /\ meta[s] = [InitialMeta EXCEPT !.state = "ERROR"]

\* position of a stopSession step in the teardown order
StopRank(step) ==
    CASE step = "idle"        -> 0
      [] step = "clear_proxy" -> 1
      [] step = "stop_emu"    -> 2
      [] step = "stop_mitm"   -> 3
      [] step = "cleanup"     -> 4
      [] OTHER                -> 5

\* call k takes a step
StopStepBy(k) == stopPc'[k] # stopPc[k]

\* C20: stopSession tears down in a fixed order: a call only moves forward
\* through clearProxy, emulator kill, proxy kill, workspace cleanup; a kill is
\* passed over only when the session records no such pid at that moment, so the
\* workspace is deleted only after both kills; each step does its own work
\* only; and after the cleanup step the call is over.
C20_StopOrder ==
    [][\A k \in StopCalls : StopStepBy(k) =>
          LET id   == stopArg'[k]
              from == stopPc[k]
              to   == stopPc'[k]
          IN  /\ StopRank(to) > StopRank(from)
              /\ from # "clear_proxy" => proxyCleared' = proxyCleared
              /\ from = "clear_proxy" => proxyCleared' = proxyCleared \cup {stopTarget[k]}
              /\ from \notin {"stop_emu", "stop_mitm"} => NewlyKilled = {}
              /\ from \in {"stop_emu", "stop_mitm"} =>
                    /\ NewlyKilled \subseteq {stopTarget[k]}
                    /\ stopTarget[k] \in killInvoked' /\ stopTarget[k] # NoPid
              /\ to = "stop_emu" => stopTarget'[k] = SessionOf(id).emulatorPid
              /\ to = "stop_mitm" =>
                    /\ stopTarget'[k] = SessionOf(id).mitmPid
                    /\ from # "stop_emu" => SessionOf(id).emulatorPid = NoPid
              /\ to = "cleanup" =>
                    /\ (from # "stop_mitm" /\ variant = "proxy") =>
                          SessionOf(id).mitmPid = NoPid
                    /\ from \notin {"stop_emu", "stop_mitm"} =>
                          SessionOf(id).emulatorPid = NoPid
              /\ from # "cleanup" =>
                    /\ ws' = ws /\ meta' = meta /\ cleanupCalls' = cleanupCalls
                    /\ to # "done"
                    /\ (id \in registry) = (id \in registry')
              /\ from = "cleanup" =>
                    /\ id \in cleanupCalls'
                    /\ to = "done" => ~ws'[id] /\ id \notin registry']_vars

\* a stopSession call on a READY proxy session ran every step: the proxy setting
\* was cleared, both processes were killed, the workspace and the session are gone
C20_Witness ==
    \E k \in StopCalls :
        /\ stopPc[k] = "done" /\ stopHist[k].afterSuccess
        /\ stopArg[k] \in SessionIds
        /\ LET session == sess[stopArg[k]] IN
              /\ session.mitmPid # NoPid /\ session.emulatorPid # NoPid
              /\ session.adbPort \in proxyCleared
              /\ {session.emulatorPid, session.mitmPid} \subseteq killInvoked
        /\ ~ws[stopArg[k]] /\ stopArg[k] \notin registry

\* a process spawned for call s exited although nobody killed it: with no
\* fault injected, it found its port taken when it came to bind it
LostBindRace(s) ==
    \E p \in Pids : /\ procs[p].owner = s
                    /\ procs[p].status = "exited"
                    /\ p \notin killInvoked

\* C21 as stated: a lost check-then-bind race alone never makes startSession
\* fail; the start is retried on another port.
C21_BindRaceRetried ==
    \A s \in SessionIds : (faults = MaxFaults /\ LostBindRace(s)) => pc[s] # "failed"

\* call s is on the recreation path: from the failed first root check on
OnRecreationPath(s) == pc[s] \in {"retry_stop", "recreate"} \/ pass[s] = 2

\* the processes spawned for call s that have not exited
LiveProcsOf(s) == {p \in Pids : procs[p].owner = s /\ procs[p].status # "exited"}

\* C22: after a failed first root check the emulator is stopped and its pid
\* cleared, then the device is force-recreated, then the emulator is started
\* and booted again, then the second check runs; no emulator of the session is
\* running when the recreation or the new start begins; a failure on this path
\* rolls back the emulator pid recorded at that moment.
C22_RecreationOrder ==
    [][\A s \in SessionIds : pc'[s] # pc[s] =>
          /\ (pc[s] = "check_root" /\ pc'[s] \in {"retry_stop", "recreate"}) =>
                /\ pass[s] = 1 /\ rootChecks'[s] = <<FALSE>>
                /\ pc'[s] = "retry_stop" /\ sess[s].emulatorPid # NoPid
          /\ pc'[s] = "recreate" =>
                /\ pc[s] = "retry_stop"
                /\ sess[s].emulatorPid \in killInvoked'
                /\ sess'[s].emulatorPid = NoPid
                /\ LiveProcsOf(s)' = {}
          /\ pc[s] = "recreate" =>
                /\ LiveProcsOf(s) = {} /\ sess[s].emulatorPid = NoPid
                /\ pc'[s] = "emu_launch" => pass'[s] = 2 /\ LiveProcsOf(s)' = {}
          /\ (pass[s] = 2 /\ pc[s] = "emu_launch") =>
                pc'[s] \in {"emu_settle", "rb_meta"}
          /\ (pass[s] = 2 /\ pc[s] = "emu_settle") =>
                pc'[s] \in {"wait_device", "rb_meta"}
          /\ (pass[s] = 2 /\ pc[s] = "wait_device") =>
                pc'[s] \in {"wait_boot", "rb_emu"}
          /\ (pass[s] = 2 /\ pc[s] = "wait_boot") =>
                pc'[s] \in {"check_root", "rb_emu"}
          /\ (pass[s] = 2 /\ pc[s] = "check_root") =>
                /\ Len(rootChecks'[s]) = 2
                /\ pc'[s] \in {"final_meta", "rb_emu"}
          /\ (OnRecreationPath(s) /\ pc'[s] \in {"rb_emu", "rb_mitm", "rb_meta"}
                /\ pc[s] \notin {"rb_emu", "rb_mitm", "rb_meta"}) =>
                pc'[s] = (IF sess[s].emulatorPid # NoPid THEN "rb_emu" ELSE "rb_meta")
          /\ (OnRecreationPath(s) /\ pc[s] = "rb_emu") =>
                sess[s].emulatorPid \in killInvoked']_vars

\* the second boot failed: the emulator stopped for the recreation and the one
\* started after it were both killed, and startSession failed
C22_Witness ==
    \E s \in SessionIds :
        /\ pass[s] = 2 /\ pc[s] = "failed" /\ recreations[s] = 1
        /\ sess[s].emulatorPid # NoPid
        /\ \E old \in killInvoked : old # sess[s].emulatorPid /\ procs[old].owner = s
        /\ sess[s].emulatorPid \in killInvoked

\* the step spawns a process, of this kind, for call s
SpawnsFor(s, kind) ==
    /\ Len(procs') = Len(procs) + 1
    /\ procs'[Len(procs')].owner = s
    /\ procs'[Len(procs')].kind = kind

\* C23: the phases of one startSession are sequential: a process is spawned
\* only after the workspace was created and the session registered, and with no
\* earlier adapter start outstanding; the emulator start is invoked only with
\* the proxy's pid and port recorded; waitForBoot is invoked only with the
\* emulator's pid and ports recorded; proxy configuration follows waitForBoot's
\* return, and READY follows proxy configuration (or the root check).
C23_PhasesSequential ==
    [][\A s \in SessionIds : pc'[s] # pc[s] =>
          /\ \A kind \in {"mitm", "emulator"} : SpawnsFor(s, kind) =>
                /\ sess[s].state \notin {"IDLE", "ERROR"}
                /\ pend[s] = NoPid /\ pend'[s] = Len(procs')
                /\ pc[s] = (IF kind = "mitm" THEN "mitm_launch" ELSE "emu_launch")
          /\ pc[s] = "create_ws" =>
                /\ Len(procs') = Len(procs)
                /\ pc'[s] \notin {"failed"} => (ws'[s] /\ s \in registry')
          /\ (pc[s] = "emu_launch" /\ variant = "proxy") =>
                /\ sess[s].mitmPid # NoPid /\ sess[s].mitmPort # 0
                /\ procs[sess[s].mitmPid].kind = "mitm"
          /\ pc'[s] = "emu_launch" =>
                pc[s] = (IF variant = "proxy" THEN "mitm_settle"
                         ELSE IF pass'[s] = 1 THEN "create_ws" ELSE "recreate")
          /\ pc'[s] = "wait_device" =>
                /\ pc[s] = "emu_settle" /\ pend'[s] = NoPid
                /\ sess'[s].emulatorPid # NoPid /\ sess'[s].emulatorPort # 0
                /\ sess'[s].adbPort = AdbPortOf(sess'[s].emulatorPort)
          /\ pc'[s] = "wait_boot" => pc[s] = "wait_device"
          /\ pc'[s] \in {"set_proxy", "check_root"} => pc[s] = "wait_boot"
          /\ pc'[s] = "final_meta" =>
                /\ pc[s] = (IF variant = "proxy" THEN "set_proxy" ELSE "check_root")
                /\ sess'[s].state = "READY"]_vars

\* a proxy-variant startSession went through every phase and returned READY
C23_Witness ==
    \E s \in SessionIds :
        /\ variant = "proxy" /\ pc[s] = "done" /\ result[s].state = "READY"
        /\ sess[s].mitmPid # NoPid /\ sess[s].emulatorPid # NoPid
        /\ sess[s].mitmPid < sess[s].emulatorPid

\* the standalone wait has returned or thrown
WBEnded == wb.at \in {"returned", "thrown"}

\* an adb invocation of the wait never returns
WBCommandHangs == <>[](wb.at \in {"dev_exec", "boot_exec"})

C25_BootObservedBeforeReturn ==
    /\ [](wb.at = "returned" => (wb.sawDevice /\ wb.sawBoot /\ wb.err = "NONE"))
    /\ [][/\ (wb'.sawDevice /\ ~wb.sawDevice) =>
                (wb.at = "dev_exec" /\ DeviceListed(wb.list, wb.id))
          /\ (wb'.sawBoot /\ ~wb.sawBoot) =>
                /\ wb.at = "boot_exec" /\ wb.sawDevice
                /\ DeviceListed(wb.list, wb.id) /\ wb.prop = "1"
                /\ wb'.at = "returned"
          /\ (wb'.at = "returned" /\ wb.at # "returned") => (wb'.sawBoot /\ ~wb.sawBoot)
          /\ (wb.at = "boot_exec" /\ wb'.at # "boot_exec" /\ wb'.last = "error") =>
                wb'.at = "boot_delay"
          /\ (wb.at = "boot_exec" /\ wb'.at # "boot_exec" /\ wb.prop # "1") =>
                wb'.at = "boot_delay"]_vars

\* waitForBoot returned, after at least one tick of waiting, for a device that
\* was listed and whose boot marker read '1'
C25_Witness ==
    /\ wb.fn = "waitForBoot" /\ wb.at = "returned"
    /\ wb.sawDevice /\ wb.sawBoot /\ wb.prop = "1"
    /\ wb.now > wb.start

\* the catch block of call s caught waitForBoot's timeout
BootTimedOut(s) == trigger[s] = "EMULATOR_BOOT_TIMEOUT"

\* the recorded pids of call s that a rollback has to stop
RecordedPids(s) == {sess[s].emulatorPid, sess[s].mitmPid} \ {NoPid}

\* C26 as stated: when waitForBoot times out, startSession fails with the
\* EMULATOR_BOOT_TIMEOUT kind, kill was invoked on the emulator pid and on the
\* proxy pid, the metadata is set to ERROR and the session is unregistered.
C26_Original ==
    [][\A s \in SessionIds :
          (~Failed(s) /\ Failed(s)' /\ BootTimedOut(s)') =>
              /\ startErr'[s].kind = "EMULATOR_BOOT_TIMEOUT"
              /\ sess'[s].emulatorPid # NoPid
              /\ RecordedPids(s)' \subseteq killInvoked'
              /\ s \notin registry'
              /\ meta'[s].state = "ERROR"]_vars

\* C26 amended: as C26, but the metadata shows ERROR only if rollback's metadata
\* update succeeded (its failure is swallowed, like for any other phase failure).
C26_BootTimeoutRollsBack ==
    [][\A s \in SessionIds :
          (~Failed(s) /\ Failed(s)' /\ BootTimedOut(s)') =>
              /\ startErr'[s].kind = "EMULATOR_BOOT_TIMEOUT"
              /\ sess'[s].emulatorPid # NoPid
              /\ RecordedPids(s)' \subseteq killInvoked'
              /\ s \notin registry'
              /\ cleanupErr'[s] # "RAW_FS_ERROR" => meta'[s].state = "ERROR"]_vars

\* a proxy-variant startSession failed on a boot timeout: both processes were
\* killed and the metadata on disk shows ERROR
C26_Witness ==
    \E s \in SessionIds :
        /\ Failed(s) /\ BootTimedOut(s) /\ variant = "proxy"
        /\ startErr[s].kind = "EMULATOR_BOOT_TIMEOUT"
        /\ Cardinality(RecordedPids(s)) = 2 /\ RecordedPids(s) \subseteq killInvoked
        /\ s \notin registry /\ meta[s].state = "ERROR"

\* the listing of an ensureSniaffAvd call returns in this step
SetupListed == setup.at = "list" /\ setup'.at # "list"

\* the call ends in this step, reporting nothing created or rooted and having
\* changed nothing since it was made
EndsUnchanged ==
    /\ setup'.at = "returned"
    /\ ~setup'.result.wasCreated /\ ~setup'.result.wasRooted
    /\ SetupEffects(setup') = setup.snap

\* C27 as stated: when the managed device already exists, ensureSniaffAvd
\* returns immediately with wasCreated=false and wasRooted=false and performs
\* no download, creation, bootstrap start or elevation.
C27_Original == [][(SetupListed /\ setup.avd) => EndsUnchanged]_vars

\* C27: when the managed device already exists and the device listing
\* succeeds, ensureSniaffAvd returns immediately with wasCreated=false and
\* wasRooted=false and changes nothing; a successful ensure leaves the device
\* in place, so an ensure after it is of that kind whenever its listing succeeds.
C27_EnsureIdempotent ==
    /\ [][(SetupListed /\ setup.avd /\ setup'.listOk) => EndsUnchanged]_vars
    /\ [](setup.at = "returned" => setup.avd)
    /\ [][setup.avd => setup'.avd]_vars

\* a second ensure, after a first one that created and rooted the device,
\* returned without creating or rooting anything
C27_Witness ==
    /\ setup.calls = 2 /\ setup.at = "returned"
    /\ ~setup.result.wasCreated /\ ~setup.result.wasRooted
    /\ setup.creates = 1 /\ setup.elevations = 1
    /\ SetupEffects(setup) = setup.snap

\* C28: whenever rootAvd spawned the bootstrap emulator, kill was invoked on
\* its pid before rootAvd returned or threw, whatever the outcome of the boot
\* wait and of the script; a failure while stopping it does not change what
\* rootAvd returns or throws.
C28_BootstrapAlwaysStopped ==
    (setup.at \in {"returned", "thrown"} /\ setup.bootPid # NoPid) =>
        /\ setup.bootKilled
        /\ setup.tryOutcome = "ok" =>
              (setup.at = "returned" /\ setup.result.wasRooted)
        /\ setup.tryOutcome = "timeout" =>
              (setup.at = "thrown" /\ setup.err = "EMULATOR_BOOT_TIMEOUT")
        /\ setup.tryOutcome = "script_failed" =>
              (setup.at = "thrown" /\ setup.err = "ROOTAVD_FAILED")
        /\ setup.tryOutcome # "none"

\* the boot wait timed out and stopping the bootstrap emulator failed too: kill
\* was invoked and the timeout is what rootAvd threw
C28_Witness ==
    /\ setup.at = "thrown" /\ setup.bootPid # NoPid
    /\ setup.tryOutcome = "timeout" /\ setup.stopFailed /\ setup.bootKilled
    /\ setup.err = "EMULATOR_BOOT_TIMEOUT"

\* the emulator started last for call s
LatestEmulatorOf(s) ==
    LET mine == {p \in Pids : procs[p].owner = s /\ procs[p].kind = "emulator"}
    IN  IF mine = {} THEN NoPid ELSE CHOOSE p \in mine : \A q \in mine : q <= p

\* the most recent root check of call s passed
LastRootCheckPassed(s) ==
    rootChecks[s] # <<>> /\ rootChecks[s][Len(rootChecks[s])]

\* C29: in the elevation variant the session becomes READY only in the step of
\* a root check that returned true, made on the emulator recorded on the
\* session, which is the one started last (after the recreation, if there was
\* one); a session that is READY or a call that returned success has a passing
\* check as its most recent one.
C29_ReadyOnlyIfRooted ==
    /\ [](\A s \in SessionIds :
            (variant = "elevation" /\ (sess[s].state = "READY" \/ pc[s] = "done")) =>
                /\ LastRootCheckPassed(s)
                /\ Len(rootChecks[s]) = pass[s])
    /\ [][\A s \in SessionIds :
            (variant = "elevation" /\ sess'[s].state = "READY" /\ sess[s].state # "READY") =>
                /\ pc[s] = "check_root"
                /\ Len(rootChecks'[s]) = Len(rootChecks[s]) + 1
                /\ LastRootCheckPassed(s)'
                /\ sess[s].emulatorPid # NoPid
                /\ sess[s].emulatorPid = LatestEmulatorOf(s)
                /\ Running(sess[s].emulatorPid)
                /\ pass[s] = 2 => sess[s].emulatorPid \notin killReturned]_vars

\* after a failed first check the call returned READY on the strength of a
\* passing check on the emulator started after the recreation
C29_Witness ==
    \E s \in SessionIds :
        /\ variant = "elevation" /\ pc[s] = "done" /\ result[s].state = "READY"
        /\ rootChecks[s] = <<FALSE, TRUE>> /\ pass[s] = 2
        /\ sess[s].emulatorPid = LatestEmulatorOf(s)
        /\ \E old \in killReturned : old < sess[s].emulatorPid /\ procs[old].owner = s

\* the record on disk is the record before the call with the partial's fields
\* overriding it and every other field unchanged
DiskIsMerge ==
    /\ DOMAIN um.disk = (DOMAIN um.before) \cup (DOMAIN um.partial)
    /\ \A f \in DOMAIN um.partial : um.disk[f] = um.partial[f]
    /\ \A f \in (DOMAIN um.before) \ (DOMAIN um.partial) : um.disk[f] = um.before[f]

Returns(s) == pc[s] = "final_meta" /\ pc'[s] = "done"

\* the record on disk carries the session's state and ports
MetaCarries(record, session) ==
    /\ {"state", "mitmPort", "emulatorPort", "adbPort"} \subseteq DOMAIN record
    /\ record.state = session.state
    /\ record.mitmPort = session.mitmPort
    /\ record.emulatorPort = session.emulatorPort
    /\ record.adbPort = session.adbPort

\* C31: startSession returns success only if, at that moment, the session is
\* registered in state READY with an emulator pid, the returned ports are the
\* session's ports and the metadata on disk carries the session's ports and the
\* state READY; when the final updateMeta throws, the call enters rollback and
\* returns no result.
C31_SuccessMeansReadyAndPersisted ==
    [][\A s \in SessionIds :
          /\ Returns(s) =>
                /\ s \in registry'
                /\ sess'[s].state = "READY"
                /\ sess'[s].emulatorPid # NoPid
                /\ result'[s].state = "READY"
                /\ result'[s].mitmPort = sess'[s].mitmPort
                /\ result'[s].emulatorPort = sess'[s].emulatorPort
                /\ result'[s].adbPort = sess'[s].adbPort
                /\ MetaCarries(meta'[s], sess'[s])
                /\ meta'[s].state = "READY"
          /\ (pc[s] = "final_meta" /\ pc'[s] \notin {"final_meta", "done"}) =>
                /\ trigger'[s] = "RAW_FS_ERROR"
                /\ sess'[s].state = "ERROR"
                /\ pc'[s] = RollbackPc(sess[s])
                /\ result'[s] = result[s]
                /\ meta'[s] = meta[s]]_vars

\* a call returned READY on a console port other than the default one, and the
\* record on disk carries that port
C31_Witness ==
    \E s \in SessionIds :
        /\ pc[s] = "done" /\ result[s].state = "READY"
        /\ result[s].emulatorPort # DefaultEmulatorPort
        /\ meta[s].emulatorPort = result[s].emulatorPort
        /\ meta[s].state = "READY"
        /\ s \in registry

\* the lowest port of a non-empty set
LowestOf(ports) == CHOOSE p \in ports : \A q \in ports : p <= q

\* the port the claim names for the call: the first free retry candidate, else
\* the first free port of the default range, else none
MSFirstChoice ==
    LET freeCandidates == MSCandidates(ms.req) \ ms.occ
        freeRange      == MSRange \ ms.occ
    IN  IF freeCandidates # {} THEN LowestOf(freeCandidates)
        ELSE IF freeRange # {} THEN LowestOf(freeRange)
        ELSE NoPort

\* C32: MitmAdapter.start uses the first free port among requested,
\* requested+1, ... (portRetryAttempts candidates); only when none is free, the
\* first free port of [defaultMitmPort, defaultMitmPort+100]; when that range is
\* exhausted too it throws MITM_PORT_UNAVAILABLE without spawning. The process
\* is spawned on the selected port and the returned port is that port.
C32_ProxyPortSelection ==
    /\ ms.at \in {"spawn", "settle", "returned"} =>
          ms.port = MSFirstChoice /\ ms.port # NoPort
    /\ (ms.at \notin {"off", "select"} /\ MSFirstChoice = NoPort) =>
          ms.at = "thrown" /\ ms.err = "MITM_PORT_UNAVAILABLE"
    /\ ms.err = "MITM_PORT_UNAVAILABLE" => (MSFirstChoice = NoPort /\ ~ms.spawned)
    /\ ms.spawned => ms.arg = MSFirstChoice
    /\ ms.at = "returned" => (ms.spawned /\ ms.res.port = ms.arg /\ ms.res.pid # NoPid)

\* every retry candidate of a request above the default was busy, and the proxy
\* was started on a port of the default range below the requested one
C32_Witness ==
    /\ ms.at = "returned"
    /\ ms.req = DefaultMitmPort + 2
    /\ MSCandidates(ms.req) \subseteq ms.occ
    /\ ms.res.port = DefaultMitmPort

\* the adapter start awaited by the call of s ends in this step
SettleEnds(s, at) == pc[s] = at /\ pc'[s] # at

\* C33: adapter start reports success only for a live process: when the
\* spawned proxy (emulator) is no longer running after the settle delay, start
\* throws MITM_START_FAILED (EMULATOR_START_FAILED) and the session's pid and
\* port fields stay as they were; a pid is recorded on a session only in the
\* step of a liveness check that found that process running.
C33_StartOnlyForLiveProcess ==
    [][\A s \in SessionIds :
          /\ (SettleEnds(s, "mitm_settle") /\ ~Running(pend[s])) =>
                /\ trigger'[s] = "MITM_START_FAILED"
                /\ sess'[s].mitmPid = sess[s].mitmPid
                /\ sess'[s].mitmPort = sess[s].mitmPort
          /\ (SettleEnds(s, "emu_settle") /\ ~Running(pend[s])) =>
                /\ trigger'[s] = "EMULATOR_START_FAILED"
                /\ sess'[s].emulatorPid = sess[s].emulatorPid
                /\ sess'[s].emulatorPort = sess[s].emulatorPort
                /\ sess'[s].adbPort = sess[s].adbPort
          /\ (sess'[s].mitmPid # sess[s].mitmPid /\ sess'[s].mitmPid # NoPid) =>
                /\ pc[s] = "mitm_settle"
                /\ sess'[s].mitmPid = pend[s]
                /\ Running(pend[s])
                /\ procs[pend[s]].kind = "mitm" /\ procs[pend[s]].port = sess'[s].mitmPort
          /\ (sess'[s].emulatorPid # sess[s].emulatorPid /\ sess'[s].emulatorPid # NoPid) =>
                /\ pc[s] = "emu_settle"
                /\ sess'[s].emulatorPid = pend[s]
                /\ Running(pend[s])
                /\ procs[pend[s]].kind = "emulator"
                /\ procs[pend[s]].port = sess'[s].emulatorPort]_vars

\* an emulator exited before the liveness check: the call failed with
\* EMULATOR_START_FAILED and the session holds no emulator pid
C33_Witness ==
    \E s \in SessionIds : \E p \in Pids :
        /\ Failed(s) /\ trigger[s] = "EMULATOR_START_FAILED"
        /\ procs[p].kind = "emulator" /\ procs[p].owner = s /\ ~Running(p)
        /\ p \notin killInvoked
        /\ sess[s].emulatorPid = NoPid
        /\ startErr[s].kind = "EMULATOR_START_FAILED"

\* what the start tool hands to its client for the call of s
ToolResultOf(s) == StartToolResult(pc[s], result[s], startErr[s])

\* C34: startSession only ever fails with a typed error: a typed error that was
\* caught is thrown again with the same kind, any other failure is thrown as
\* INTERNAL_ERROR around it; the start tool returns success:true with the
\* payload when startSession returned, and success:false, isError and that same
\* typed error when it threw.
C34_OnlyTypedErrors ==
    \A s \in SessionIds :
        /\ Failed(s) =>
              /\ IsTyped(startErr[s])
              /\ trigger[s] \notin RawErrors =>
                    startErr[s] = [kind |-> trigger[s], cause |-> trigger[s]]
              /\ trigger[s] \in RawErrors =>
                    startErr[s] = [kind |-> "INTERNAL_ERROR", cause |-> trigger[s]]
              /\ ToolResultOf(s) = [success |-> FALSE, isError |-> TRUE, state |-> "NONE",
                                    error |-> startErr[s]]
        /\ pc[s] = "done" =>
              /\ startErr[s] = NoError
              /\ ToolResultOf(s) = [success |-> TRUE, isError |-> FALSE, state |-> "READY",
                                    error |-> NoError]
        /\ pc[s] \notin {"done", "failed"} => ToolResultOf(s) = NoToolResult

\* an untyped file-system error was caught after the session was registered, a
\* cleanup step of rollback failed as well, and the tool reported INTERNAL_ERROR
C34_Witness ==
    \E s \in SessionIds :
        /\ Failed(s) /\ trigger[s] = "RAW_FS_ERROR" /\ sess[s].state = "ERROR"
        /\ cleanupErr[s] # "NONE"
        /\ ToolResultOf(s).error.kind = "INTERNAL_ERROR"
        /\ ToolResultOf(s).isError

\* the process has ended through the teardown's process.exit or through an
\* uncaught rejection of the teardown
ProcessExited == sd.exited

StartedRuns == {r \in SDRuns : sd.runs[r].at # "off"}

\* C36: the shutdown teardown runs at most once: however many termination
\* events arrive, also while the first teardown is awaiting a stopSession, only
\* the first one runs the teardown, and shutdown invokes stopSession at most
\* once per session.
C36_TeardownRunsOnce ==
    /\ Cardinality(StartedRuns) <= 1
    /\ \A s \in SessionIds : sd.invoked[s] <= 1

\* the stopSession calls j and k were made on the same session
SameSession(j, k) == j # k /\ stopArg[j] = stopArg[k] /\ stopArg[j] \in SessionIds

\* C37: when stopSession calls on one session overlap, the teardown is
\* performed once: of two calls that have ended exactly one succeeded and the
\* other failed with SESSION_NOT_FOUND, no call invokes kill on a process on
\* which kill was already invoked, and no call deletes a workspace whose
\* deletion was already requested.
C37_OverlappingStopsTeardownOnce ==
    /\ \A j, k \in StopCalls :
          (SameSession(j, k) /\ stopPc[j] = "done" /\ stopPc[k] \in {"done", "failed"}) =>
              (stopPc[k] = "failed" /\ stopErr[k] = "SESSION_NOT_FOUND")
    /\ [][\A k \in StopCalls :
            /\ (StopStepBy(k) /\ stopPc[k] \in {"stop_emu", "stop_mitm"}) =>
                  stopTarget[k] \notin killInvoked
            /\ (StopStepBy(k) /\ stopPc[k] = "cleanup") =>
                  stopArg[k] \notin cleanupCalls]_vars

\* C38: updateAndroid changes only the android field of the state file: after
\* its write every other field has the value that was on disk just before the
\* write, also when another component wrote it after updateAndroid's read; the
\* android sub-fields not named in the update are kept; and when it returns
\* null after a failed read, it has written nothing.
C38_UpdateAndroidOnlyAndroid ==
    /\ sc.wrote =>
          /\ sc.disk.status = sc.prior.status
          /\ sc.disk.mitm = sc.prior.mitm
          /\ \A f \in DOMAIN sc.android : sc.disk.android[f] = sc.android[f]
          /\ \A f \in (DOMAIN sc.prior.android) \ (DOMAIN sc.android) :
                f \in DOMAIN sc.disk.android /\ sc.disk.android[f] = sc.prior.android[f]
    /\ (sc.at = "returned" /\ ~sc.wrote) => sc.res = SCNull
    /\ (sc.at = "returned" /\ sc.current = SCMissing) =>
          (sc.res = SCNull /\ ~sc.wrote /\ sc.disk.kind = sc.prior.kind)

\* sequence a is an initial part of sequence b
IsPrefix(a, b) == Len(a) <= Len(b) /\ \A i \in 1..Len(a) : a[i] = b[i]

\* C39: stateChange events mirror the session's stored state: once startSession
\* has returned or thrown, the states announced by the events of a session are
\* the states stored on it, in the same order, ERROR included; while it runs the
\* two agree and at most the last announced state is still to be stored.
C39_EventsMirrorState ==
    \A s \in SessionIds :
        /\ pc[s] \in {"done", "failed"} => events[s] = stateLog[s]
        /\ IsPrefix(stateLog[s], events[s])
        /\ Len(events[s]) <= Len(stateLog[s]) + 1

====
